---------------------------- MODULE Spec2Model ----------------------------
(***************************************************************************)
(* Model of nova_act_automation/json_parser.py (class JsonParser): the     *)
(* flattener, the alias resolver, the value normalizer and the entry point *)
(* parse_json_data.                                                        *)
(*                                                                         *)
(* Python values are tagged records:                                       *)
(*   None   [t |-> "null"]                 bool  [t |-> "bool",  b |-> _]  *)
(*   int    [t |-> "num",  n |-> _]        float [t |-> "float", w, f]     *)
(*   str    [t |-> "str",  s |-> _]        list  [t |-> "list",  l |-> _]  *)
(*   dict   [t |-> "dict", d |-> _]                                        *)
(* A dict is the sequence of its <<key, value>> pairs in insertion order,  *)
(* keys unique.  Strings are TLA+ strings; a character is a string of      *)
(* length 1.  A float w.f is a non-negative number with one decimal digit. *)
(***************************************************************************)
EXTENDS Integers, Sequences, FiniteSets, TLC

VARIABLES data, pc, flattened_data, raw_values, found_mappings, standardized_data,
          previous, record, validation_report, error, validated_at, file,
          self_field_mappings, calls,
          use_manual_filling, upload_file, shipment_data, attempt, nova, step, raised,
          confirmation

vars == <<data, pc, flattened_data, raw_values, found_mappings, standardized_data,
          previous, record, validation_report, error, validated_at, file,
          self_field_mappings, calls,
          use_manual_filling, upload_file, shipment_data, attempt, nova, step, raised,
          confirmation>>

\* the state of a run of NovaActAutomation.run_automation
automation == <<use_manual_filling, upload_file, shipment_data, attempt, nova, step, raised,
                confirmation>>

\* no automation is running: the parser is used on its own
NoAutomation ==
    /\ use_manual_filling = FALSE
    /\ upload_file = [exists |-> FALSE, is_file |-> FALSE, name |-> "", size |-> 0,
                      readable |-> FALSE]
    /\ shipment_data = <<>>
    /\ attempt = 0
    /\ nova = <<>>
    /\ step = "idle"
    /\ raised = ""
    /\ confirmation = ""

\* the state of the parser object and of the calls in flight on it
shared == <<self_field_mappings, calls>>

\* the state of the one caller
single == <<data, pc, flattened_data, raw_values, found_mappings, standardized_data,
            previous, record, validation_report, error, validated_at, file>>

-----------------------------------------------------------------------------
(* Python values *)

None == [t |-> "null"]
Bool(b) == [t |-> "bool", b |-> b]
Num(n) == [t |-> "num", n |-> n]
Float(w, f) == [t |-> "float", w |-> w, f |-> f]
Str(s) == [t |-> "str", s |-> s]
List(l) == [t |-> "list", l |-> l]
Dict(d) == [t |-> "dict", d |-> d]

-----------------------------------------------------------------------------
(* str primitives *)

CharAt(s, i) == SubSeq(s, i, i)

UpperChars == "ABCDEFGHIJKLMNOPQRSTUVWXYZ"
LowerChars == "abcdefghijklmnopqrstuvwxyz"
Digits == "0123456789"
Whitespace == {" ", "\n", "\t", "\r"}

DigitSet == {CharAt(Digits, i) : i \in 1..10}
IsDigit(c) == c \in DigitSet

UpperSet == {CharAt(UpperChars, i) : i \in 1..26}
LowerOf == [c \in UpperSet |-> CharAt(LowerChars, CHOOSE i \in 1..26 : CharAt(UpperChars, i) = c)]

\* str.lower() on one character
LowerChar(c) == IF c \in UpperSet THEN LowerOf[c] ELSE c

RECURSIVE LowerChars_(_)
\* character by character, the string split in halves
LowerChars_(s) ==
    IF Len(s) = 0 THEN ""
    ELSE IF Len(s) = 1 THEN LowerChar(s)
    ELSE LowerChars_(SubSeq(s, 1, Len(s) \div 2)) \o LowerChars_(SubSeq(s, Len(s) \div 2 + 1, Len(s)))

\* str.lower(): s itself when it holds no upper-case letter
lower(s) == IF \A i \in 1..Len(s) : CharAt(s, i) \notin UpperSet THEN s ELSE LowerChars_(s)

\* the Python operator  a in b  on two strings
StrIn(a, b) ==
    \E i \in 0..(Len(b) - Len(a)) : SubSeq(b, i + 1, i + Len(a)) = a

RECURSIVE lstrip(_)
lstrip(s) ==
    IF s # "" /\ CharAt(s, 1) \in Whitespace THEN lstrip(SubSeq(s, 2, Len(s))) ELSE s

RECURSIVE rstrip(_)
rstrip(s) ==
    IF s # "" /\ CharAt(s, Len(s)) \in Whitespace THEN rstrip(SubSeq(s, 1, Len(s) - 1)) ELSE s

\* str.strip()
strip(s) == rstrip(lstrip(s))

RECURSIVE NatStr(_)
\* decimal digits of a natural number
NatStr(n) == IF n < 10 THEN CharAt(Digits, n + 1) ELSE NatStr(n \div 10) \o CharAt(Digits, (n % 10) + 1)

IntStr(n) == IF n < 0 THEN "-" \o NatStr(0 - n) ELSE NatStr(n)

-----------------------------------------------------------------------------
(* dict primitives: a dict is a sequence of <<key, value>> pairs *)

DictKeys(d) == [i \in 1..Len(d) |-> d[i][1]]
HasKey(d, k) == \E i \in 1..Len(d) : d[i][1] = k
Get(d, k) == d[CHOOSE i \in 1..Len(d) : d[i][1] = k][2]

\* d[k] = v : an existing key keeps its position, a new key goes last
Put(d, k, v) ==
    IF HasKey(d, k)
    THEN [i \in 1..Len(d) |-> IF d[i][1] = k THEN <<k, v>> ELSE d[i]]
    ELSE Append(d, <<k, v>>)

\* d1.update(d2): the keys of d1 keep their position, the new keys of d2
\* follow in their order
Update(d1, d2) ==
    [i \in 1..Len(d1) |-> IF HasKey(d2, d1[i][1]) THEN <<d1[i][1], Get(d2, d1[i][1])>> ELSE d1[i]]
        \o SelectSeq(d2, LAMBDA e : ~HasKey(d1, e[1]))

RECURSIVE DictOf(_, _, _)
\* dict(items[a..b]): the pairs taken left to right, the range in halves
DictOf(items, a, b) ==
    IF a > b THEN <<>>
    ELSE IF a = b THEN <<items[a]>>
    ELSE Update(DictOf(items, a, (a + b) \div 2), DictOf(items, (a + b) \div 2 + 1, b))

-----------------------------------------------------------------------------
(* JsonParser._get_field_mappings: the alias table, in dict order *)

field_mappings ==
    << [field |-> "shipper_name",
        keys |-> << "shipper_name", "shipper", "sender_name", "sender", "from_name", "from",
                    "origin_name", "origin_company", "shipping_company", "company_name" >>],
       [field |-> "shipper_address",
        keys |-> << "shipper_address", "shipper_addr", "sender_address", "sender_addr",
                    "from_address", "from_addr", "origin_address", "origin_addr", "pickup_address" >>],
       [field |-> "recipient_name",
        keys |-> << "recipient_name", "recipient", "receiver_name", "receiver", "to_name", "to",
                    "destination_name", "dest_name", "customer_name", "consignee_name", "consignee" >>],
       [field |-> "recipient_address",
        keys |-> << "recipient_address", "recipient_addr", "receiver_address", "receiver_addr",
                    "to_address", "to_addr", "destination_address", "dest_address", "delivery_address" >>],
       [field |-> "package_weight",
        keys |-> << "package_weight", "weight", "pkg_weight", "total_weight", "gross_weight",
                    "shipment_weight", "parcel_weight", "item_weight" >>],
       [field |-> "package_dimensions",
        keys |-> << "package_dimensions", "dimensions", "pkg_dimensions", "size", "measurements",
                    "length_width_height", "lwh", "box_size" >>],
       [field |-> "tracking_number",
        keys |-> << "tracking_number", "tracking_no", "tracking_id", "track_number", "reference_number",
                    "reference_no", "shipment_id", "order_number", "order_id", "awb_number" >>],
       [field |-> "shipping_date",
        keys |-> << "shipping_date", "ship_date", "pickup_date", "dispatch_date", "send_date",
                    "departure_date", "collection_date", "scheduled_date" >>],
       [field |-> "special_instructions",
        keys |-> << "special_instructions", "instructions", "notes", "comments", "remarks",
                    "delivery_instructions", "handling_instructions", "special_notes", "description" >>] >>

FieldIndex == 1..Len(field_mappings)
FieldNames == {field_mappings[i].field : i \in FieldIndex}

-----------------------------------------------------------------------------
(* JsonParser._flatten_json *)

separator == "."

RECURSIVE _flatten_json(_, _)
RECURSIVE FlattenEntries(_, _, _, _)

RECURSIVE flatten_entries_keep_arrays(_, _, _, _)
\* a loop without the branch for arrays of objects: every array is stored whole
flatten_entries_keep_arrays(entries, a, b, parent_key) ==
    IF a > b THEN <<>>
    ELSE IF a < b
    THEN flatten_entries_keep_arrays(entries, a, (a + b) \div 2, parent_key)
             \o flatten_entries_keep_arrays(entries, (a + b) \div 2 + 1, b, parent_key)
    ELSE LET key == entries[a][1]
             value == entries[a][2]
             new_key == IF parent_key # "" THEN parent_key \o separator \o key ELSE key
         IN  IF value.t = "dict"
             THEN _flatten_json(value, new_key)
             ELSE << <<new_key, value>> >>

RECURSIVE FlattenItems(_, _, _)
\* the flattened items of the objects among l[1..n], all under new_key
FlattenItems(l, n, new_key) ==
    IF n = 0 THEN <<>>
    ELSE FlattenItems(l, n - 1, new_key)
             \o (IF l[n].t = "dict" THEN _flatten_json(l[n], new_key) ELSE <<>>)

RECURSIVE flatten_entries_all_items(_, _, _, _)
\* a loop that descends into every object of an array of objects
flatten_entries_all_items(entries, a, b, parent_key) ==
    IF a > b THEN <<>>
    ELSE IF a < b
    THEN flatten_entries_all_items(entries, a, (a + b) \div 2, parent_key)
             \o flatten_entries_all_items(entries, (a + b) \div 2 + 1, b, parent_key)
    ELSE LET key == entries[a][1]
             value == entries[a][2]
             new_key == IF parent_key # "" THEN parent_key \o separator \o key ELSE key
         IN  IF value.t = "dict"
             THEN _flatten_json(value, new_key)
             ELSE IF value.t = "list" /\ Len(value.l) > 0 /\ value.l[1].t = "dict"
             THEN FlattenItems(value.l, Len(value.l), new_key)
             ELSE << <<new_key, value>> >>

\* the for loop: what the entries a..b of the dict add to the list  items,
\* the range in halves, one entry as the loop body has it
FlattenEntries(entries, a, b, parent_key) ==
    IF a > b THEN <<>>
    ELSE IF a < b
    THEN FlattenEntries(entries, a, (a + b) \div 2, parent_key)
             \o FlattenEntries(entries, (a + b) \div 2 + 1, b, parent_key)
    ELSE LET key == entries[a][1]
             value == entries[a][2]
             new_key == IF parent_key # "" THEN parent_key \o separator \o key ELSE key
         IN  IF value.t = "dict"
             THEN _flatten_json(value, new_key)
             ELSE IF value.t = "list" /\ Len(value.l) > 0 /\ value.l[1].t = "dict"
             THEN _flatten_json(value.l[1], new_key)
             ELSE << <<new_key, value>> >>

_flatten_json(d, parent_key) ==
    IF d.t = "dict"
    THEN LET items == FlattenEntries(d.d, 1, Len(d.d), parent_key)
         IN  DictOf(items, 1, Len(items))
    ELSE <<>>

-----------------------------------------------------------------------------
(* JsonParser._find_value_by_keys.  A pass yields [hit, value]: hit says   *)
(* that the pass reached its return statement.                             *)

NoHit == [hit |-> FALSE, value |-> None]
Hit(v) == [hit |-> TRUE, value |-> v]

RECURSIVE ExactPass(_, _, _, _)
\* lines 132-134: for key in possible_keys: if key in data: return data[key]
\* over the aliases a..b, the range in halves: the return of the first half
\* when it has one
ExactPass(d, possible_keys, a, b) ==
    IF a > b THEN NoHit
    ELSE IF a = b
    THEN (IF HasKey(d, possible_keys[a]) THEN Hit(Get(d, possible_keys[a])) ELSE NoHit)
    ELSE LET first == ExactPass(d, possible_keys, a, (a + b) \div 2)
         IN  IF first.hit THEN first ELSE ExactPass(d, possible_keys, (a + b) \div 2 + 1, b)

RECURSIVE LowerAll(_)
\* [k.lower() for k in keys]
LowerAll(keys) ==
    IF Len(keys) = 0 THEN <<>>
    ELSE IF Len(keys) = 1 THEN <<lower(keys[1])>>
    ELSE LowerAll(SubSeq(keys, 1, Len(keys) \div 2))
             \o LowerAll(SubSeq(keys, Len(keys) \div 2 + 1, Len(keys)))

\* a lower-cased dict in which the first of the keys that fold together keeps
\* its value
lower_dict_first_wins(d, lower_data_keys) ==
    LET firsts == {j \in 1..Len(d) : \A k \in 1..(j - 1) : lower_data_keys[k] # lower_data_keys[j]}
        items == [j \in 1..Len(d) |-> <<lower_data_keys[j], d[j][2]>>]
    IN  SelectSeq(items, LAMBDA item : \E j \in firsts : items[j] = item)

\* line 137: {k.lower(): v for k, v in data.items()};
\* lower_data_keys[j] is the lower-cased key of item j
LowerDict(d, lower_data_keys) ==
    DictOf([j \in 1..Len(d) |-> <<lower_data_keys[j], d[j][2]>>], 1, Len(d))

RECURSIVE CaseInsensitivePass(_, _, _, _)
\* lines 138-140, over the dict data_lower and the lower-cased aliases a..b
CaseInsensitivePass(data_lower, lower_keys, a, b) ==
    IF a > b THEN NoHit
    ELSE IF a = b
    THEN (IF HasKey(data_lower, lower_keys[a]) THEN Hit(Get(data_lower, lower_keys[a]))
          ELSE NoHit)
    ELSE LET first == CaseInsensitivePass(data_lower, lower_keys, a, (a + b) \div 2)
         IN  IF first.hit THEN first
             ELSE CaseInsensitivePass(data_lower, lower_keys, (a + b) \div 2 + 1, b)

\* line 145, on key.lower() and data_key.lower()
PartialMatch(lower_key, lower_data_key) ==
    StrIn(lower_key, lower_data_key) \/ StrIn(lower_data_key, lower_key)

\* the items of d whose lower-cased key matches the lower-cased alias
MatchingItems(d, lower_key, lower_data_keys) ==
    {j \in 1..Len(d) : PartialMatch(lower_key, lower_data_keys[j])}

\* the nested loops with the items outside and the aliases a..b inside
partial_pass_items_first(d, lower_keys, lower_data_keys, a, b) ==
    LET js == {j \in 1..Len(d) : \E i \in a..b : PartialMatch(lower_keys[i], lower_data_keys[j])}
    IN  IF js # {} THEN Hit(d[CHOOSE j \in js : \A k \in js : j <= k][2]) ELSE NoHit

RECURSIVE PartialPass(_, _, _, _, _)
\* lines 143-146: the nested loops over the aliases a..b; for one alias the
\* inner loop returns at the first item that matches
PartialPass(d, lower_keys, lower_data_keys, a, b) ==
    IF a > b THEN NoHit
    ELSE IF a = b
    THEN LET js == MatchingItems(d, lower_keys[a], lower_data_keys)
         IN  IF js # {} THEN Hit(d[CHOOSE j \in js : \A k \in js : j <= k][2]) ELSE NoHit
    ELSE LET first == PartialPass(d, lower_keys, lower_data_keys, a, (a + b) \div 2)
         IN  IF first.hit THEN first
             ELSE PartialPass(d, lower_keys, lower_data_keys, (a + b) \div 2 + 1, b)

\* a resolver that runs the partial pass before the exact pass
find_value_partial_first(d, possible_keys) ==
    LET lower_keys == LowerAll(possible_keys)
        lower_data_keys == LowerAll(DictKeys(d))
        p1 == ExactPass(d, possible_keys, 1, Len(possible_keys))
        p2 == CaseInsensitivePass(LowerDict(d, lower_data_keys), lower_keys, 1, Len(lower_keys))
        p3 == PartialPass(d, lower_keys, lower_data_keys, 1, Len(lower_keys))
    IN  IF p3.hit THEN p3.value
        ELSE IF p1.hit THEN p1.value
        ELSE IF p2.hit THEN p2.value
        ELSE None

\* a resolver that runs the partial pass before the case-insensitive pass
find_value_partial_second(d, possible_keys) ==
    LET lower_keys == LowerAll(possible_keys)
        lower_data_keys == LowerAll(DictKeys(d))
        p1 == ExactPass(d, possible_keys, 1, Len(possible_keys))
        p2 == CaseInsensitivePass(LowerDict(d, lower_data_keys), lower_keys, 1, Len(lower_keys))
        p3 == PartialPass(d, lower_keys, lower_data_keys, 1, Len(lower_keys))
    IN  IF p1.hit THEN p1.value
        ELSE IF p3.hit THEN p3.value
        ELSE IF p2.hit THEN p2.value
        ELSE None

\* key.lower() and data_key.lower() are evaluated once for each alias and
\* each item instead of once for each comparison
_find_value_by_keys(d, possible_keys) ==
    LET lower_keys == LowerAll(possible_keys)
        lower_data_keys == LowerAll(DictKeys(d))
        p1 == ExactPass(d, possible_keys, 1, Len(possible_keys))
        p2 == CaseInsensitivePass(LowerDict(d, lower_data_keys), lower_keys, 1, Len(lower_keys))
        p3 == PartialPass(d, lower_keys, lower_data_keys, 1, Len(lower_keys))
    IN  IF p1.hit THEN p1.value
        ELSE IF p2.hit THEN p2.value
        ELSE IF p3.hit THEN p3.value
        ELSE None

-----------------------------------------------------------------------------
(* str(value) and repr(value) *)

\* one character of a str inside repr(): the escapes of the printable range
ReprChar(c, quote) ==
    IF c = "\\" THEN "\\\\"
    ELSE IF c = "\n" THEN "\\n"
    ELSE IF c = "\t" THEN "\\t"
    ELSE IF c = "\r" THEN "\\r"
    ELSE IF c = quote THEN "\\" \o c
    ELSE c

RECURSIVE ReprChars(_, _)
\* character by character, the string split in halves
ReprChars(s, quote) ==
    IF Len(s) = 0 THEN ""
    ELSE IF Len(s) = 1 THEN ReprChar(s, quote)
    ELSE ReprChars(SubSeq(s, 1, Len(s) \div 2), quote)
             \o ReprChars(SubSeq(s, Len(s) \div 2 + 1, Len(s)), quote)

\* repr of a str: single quotes, double quotes when it holds ' and no "
ReprStr(s) ==
    LET quote == IF StrIn("'", s) /\ ~StrIn("\"", s) THEN "\"" ELSE "'"
    IN  quote \o ReprChars(s, quote) \o quote

RECURSIVE PyStr(_)
RECURSIVE PyRepr(_)
RECURSIVE JoinRepr(_, _)
RECURSIVE JoinItems(_, _)

\* ", ".join(repr(x) for x in l[1..n])
JoinRepr(l, n) ==
    IF n = 0 THEN ""
    ELSE IF n = 1 THEN PyRepr(l[1])
    ELSE JoinRepr(l, n - 1) \o ", " \o PyRepr(l[n])

\* ", ".join(repr(k) + ": " + repr(v)) over d[1..n]
JoinItems(d, n) ==
    IF n = 0 THEN ""
    ELSE LET item == ReprStr(d[n][1]) \o ": " \o PyRepr(d[n][2])
         IN  IF n = 1 THEN item ELSE JoinItems(d, n - 1) \o ", " \o item

PyRepr(v) == IF v.t = "str" THEN ReprStr(v.s) ELSE PyStr(v)

PyStr(v) ==
    CASE v.t = "null"  -> "None"
      [] v.t = "bool"  -> IF v.b THEN "True" ELSE "False"
      [] v.t = "num"   -> IntStr(v.n)
      [] v.t = "float" -> NatStr(v.w) \o "." \o NatStr(v.f)
      [] v.t = "str"   -> v.s
      [] v.t = "list"  -> "[" \o JoinRepr(v.l, Len(v.l)) \o "]"
      [] v.t = "dict"  -> "{" \o JoinItems(v.d, Len(v.d)) \o "}"

-----------------------------------------------------------------------------
\* JsonParser._normalize_value, package_weight: re.search with \d+\.?\d*

RECURSIVE FirstDigit(_, _)
\* index of the first digit of s at or after i, 0 when there is none
FirstDigit(s, i) ==
    IF i > Len(s) THEN 0
    ELSE IF IsDigit(CharAt(s, i)) THEN i
    ELSE FirstDigit(s, i + 1)

RECURSIVE DigitsEnd(_, _)
\* \d* from index i: the index following the run of digits that starts at i
DigitsEnd(s, i) ==
    IF i <= Len(s) /\ IsDigit(CharAt(s, i)) THEN DigitsEnd(s, i + 1) ELSE i

\* a search that takes a "-" before the first digit into the group
weight_search_signed(s) ==
    LET a == FirstDigit(s, 1)
        b == DigitsEnd(s, a)
        c == IF b <= Len(s) /\ CharAt(s, b) = "." THEN DigitsEnd(s, b + 1) ELSE b
        from == IF a > 1 /\ CharAt(s, a - 1) = "-" THEN a - 1 ELSE a
    IN  IF a = 0 THEN [found |-> FALSE, group |-> ""]
        ELSE [found |-> TRUE, group |-> SubSeq(s, from, c - 1)]

\* match.group(1) of the search in s, as [found, group]
weight_search(s) ==
    LET a == FirstDigit(s, 1)
        b == DigitsEnd(s, a)
        c == IF b <= Len(s) /\ CharAt(s, b) = "." THEN DigitsEnd(s, b + 1) ELSE b
    IN  IF a = 0 THEN [found |-> FALSE, group |-> ""]
        ELSE [found |-> TRUE, group |-> SubSeq(s, a, c - 1)]

-----------------------------------------------------------------------------
(* JsonParser._normalize_address *)

RECURSIVE replace(_, _, _)
\* str.replace(old, new) for a one-character old: character by character,
\* the string split in halves
replace(s, old, new) ==
    IF Len(s) = 0 THEN ""
    ELSE IF Len(s) = 1 THEN (IF s = old THEN new ELSE s)
    ELSE replace(SubSeq(s, 1, Len(s) \div 2), old, new)
             \o replace(SubSeq(s, Len(s) \div 2 + 1, Len(s)), old, new)

RECURSIVE split(_, _)
\* str.split(sep) for a one-character sep: the list of the pieces
split(s, sep) ==
    IF \E i \in 1..Len(s) : CharAt(s, i) = sep
    THEN LET i == CHOOSE j \in 1..Len(s) :
                      CharAt(s, j) = sep /\ \A k \in 1..(j - 1) : CharAt(s, k) # sep
         IN  <<SubSeq(s, 1, i - 1)>> \o split(SubSeq(s, i + 1, Len(s)), sep)
    ELSE <<s>>

RECURSIVE join(_, _)
\* sep.join(parts)
join(sep, parts) ==
    IF Len(parts) = 0 THEN ""
    ELSE IF Len(parts) = 1 THEN parts[1]
    ELSE parts[1] \o sep \o join(sep, Tail(parts))

RECURSIVE StrippedLines(_)
\* [line.strip() for line in parts if line.strip()]
StrippedLines(parts) ==
    IF Len(parts) = 0 THEN <<>>
    ELSE IF strip(parts[1]) # "" THEN <<strip(parts[1])>> \o StrippedLines(Tail(parts))
    ELSE StrippedLines(Tail(parts))

\* a normalizer that replaces the pipes only
normalize_address_pipes_only(address_str) ==
    LET replaced == replace(address_str, "|", "\n")
    IN  join("\n", StrippedLines(split(replaced, "\n")))

_normalize_address(address_str) ==
    LET replaced == replace(replace(address_str, "|", "\n"), ";", "\n")
    IN  join("\n", StrippedLines(split(replaced, "\n")))

-----------------------------------------------------------------------------
(* datetime.strptime for the directives of JsonParser._normalize_date, and *)
(* strftime('%Y-%m-%d').  A directive is a regular expression with its     *)
(* alternatives tried in order; the match must consume the whole string.   *)

DigitVal(c) == (CHOOSE i \in 1..10 : CharAt(Digits, i) = c) - 1

\* the character of s at index i is a digit between lo and hi
D(s, i, lo, hi) ==
    i <= Len(s) /\ IsDigit(CharAt(s, i)) /\ DigitVal(CharAt(s, i)) \in lo..hi

RECURSIVE ToInt(_)
\* int(s) for digits with optional leading blanks
ToInt(s) ==
    IF s = "" THEN 0
    ELSE IF CharAt(s, Len(s)) = " " THEN 0
    ELSE ToInt(SubSeq(s, 1, Len(s) - 1)) * 10 + DigitVal(CharAt(s, Len(s)))

NAlts(dir) ==
    CASE dir = "Y" -> 1 [] dir = "m" -> 3 [] dir = "d" -> 5 [] dir = "H" -> 3
      [] dir = "M" -> 2 [] dir = "S" -> 3 [] dir = "f" -> 6

\* the number of characters the k-th alternative of directive dir takes at
\* index p of s, 0 when it does not match there
Alt(dir, k, s, p) ==
    CASE dir = "Y" ->
            IF \A i \in 0..3 : D(s, p + i, 0, 9) THEN 4 ELSE 0
      [] dir = "m" ->
            IF k = 1 THEN (IF D(s, p, 1, 1) /\ D(s, p + 1, 0, 2) THEN 2 ELSE 0)
            ELSE IF k = 2 THEN (IF D(s, p, 0, 0) /\ D(s, p + 1, 1, 9) THEN 2 ELSE 0)
            ELSE (IF D(s, p, 1, 9) THEN 1 ELSE 0)
      [] dir = "d" ->
            IF k = 1 THEN (IF D(s, p, 3, 3) /\ D(s, p + 1, 0, 1) THEN 2 ELSE 0)
            ELSE IF k = 2 THEN (IF D(s, p, 1, 2) /\ D(s, p + 1, 0, 9) THEN 2 ELSE 0)
            ELSE IF k = 3 THEN (IF D(s, p, 0, 0) /\ D(s, p + 1, 1, 9) THEN 2 ELSE 0)
            ELSE IF k = 4 THEN (IF D(s, p, 1, 9) THEN 1 ELSE 0)
            ELSE (IF p <= Len(s) /\ CharAt(s, p) = " " /\ D(s, p + 1, 1, 9) THEN 2 ELSE 0)
      [] dir = "H" ->
            IF k = 1 THEN (IF D(s, p, 2, 2) /\ D(s, p + 1, 0, 3) THEN 2 ELSE 0)
            ELSE IF k = 2 THEN (IF D(s, p, 0, 1) /\ D(s, p + 1, 0, 9) THEN 2 ELSE 0)
            ELSE (IF D(s, p, 0, 9) THEN 1 ELSE 0)
      [] dir = "M" ->
            IF k = 1 THEN (IF D(s, p, 0, 5) /\ D(s, p + 1, 0, 9) THEN 2 ELSE 0)
            ELSE (IF D(s, p, 0, 9) THEN 1 ELSE 0)
      [] dir = "S" ->
            IF k = 1 THEN (IF D(s, p, 6, 6) /\ D(s, p + 1, 0, 1) THEN 2 ELSE 0)
            ELSE IF k = 2 THEN (IF D(s, p, 0, 5) /\ D(s, p + 1, 0, 9) THEN 2 ELSE 0)
            ELSE (IF D(s, p, 0, 9) THEN 1 ELSE 0)
      [] dir = "f" ->
            IF \A i \in 0..(6 - k) : D(s, p + i, 0, 9) THEN 7 - k ELSE 0

RECURSIVE WhitespaceEnd(_, _)
\* \s+ from index p: the index following the run of whitespace
WhitespaceEnd(s, p) ==
    IF p <= Len(s) /\ CharAt(s, p) \in Whitespace THEN WhitespaceEnd(s, p + 1) ELSE p

NoFields == [Y |-> 1900, m |-> 1, d |-> 1, H |-> 0, M |-> 0, S |-> 0, f |-> 0]
NoMatch == [ok |-> FALSE, end |-> 0, got |-> NoFields]

\* the indices of fmt where a token starts: a directive (% and its
\* letter) or one literal character, in order
Tokens(fmt) ==
    LET starts == {q \in 1..Len(fmt) : q = 1 \/ CharAt(fmt, q - 1) # "%"}
    IN  [i \in 1..Cardinality(starts) |->
            CHOOSE q \in starts : Cardinality({r \in starts : r <= q}) = i]

Taken(n) == n.n > 0

\* the ways one token of the format matches s at index p, in the order in
\* which the regular expression tries them, each as [end, got]: a
\* directive's alternatives in turn, \s+ from its longest run down, a
\* literal character without regard to case
TokenMatches(s, p, got, fmt, q) ==
    IF CharAt(fmt, q) = "%"
    THEN LET dir == CharAt(fmt, q + 1)
             alts == SelectSeq([k \in 1..NAlts(dir) |-> [n |-> Alt(dir, k, s, p)]], Taken)
         IN  [i \in 1..Len(alts) |->
                 [end |-> p + alts[i].n,
                  got |-> [got EXCEPT ![dir] = ToInt(SubSeq(s, p, p + alts[i].n - 1))]]]
    ELSE IF CharAt(fmt, q) \in Whitespace
    THEN LET e == WhitespaceEnd(s, p)
         IN  [i \in 1..(e - p) |-> [end |-> e - i + 1, got |-> got]]
    ELSE IF p <= Len(s) /\ LowerChar(CharAt(s, p)) = LowerChar(CharAt(fmt, q))
    THEN << [end |-> p + 1, got |-> got] >>
    ELSE <<>>

RECURSIVE Matches(_, _, _, _, _, _, _)
RECURSIVE Following(_, _, _, _, _, _, _)

\* the ways the tokens a..b of the format match s from index p on, in the
\* order of the backtracking search: those of the first half, each
\* followed by those of the second half
Matches(s, p, got, fmt, toks, a, b) ==
    IF a = b THEN TokenMatches(s, p, got, fmt, toks[a])
    ELSE LET mid == (a + b) \div 2
             left == Matches(s, p, got, fmt, toks, a, mid)
         IN  Following(s, left, Len(left), fmt, toks, mid + 1, b)

\* the matches of the tokens a..b after each of left[1..n], in order
Following(s, left, n, fmt, toks, a, b) ==
    IF n = 0 THEN <<>>
    ELSE Following(s, left, n - 1, fmt, toks, a, b)
             \o Matches(s, left[n].end, left[n].got, fmt, toks, a, b)

\* format_regex.match(data_string): the first match of the search
Match(s, fmt) ==
    LET toks == Tokens(fmt)
        all == Matches(s, 1, NoFields, fmt, toks, 1, Len(toks))
    IN  IF Len(all) = 0 THEN NoMatch
        ELSE [ok |-> TRUE, end |-> all[1].end, got |-> all[1].got]

IsLeap(y) == (y % 4 = 0 /\ y % 100 # 0) \/ y % 400 = 0

DaysInMonth(y, m) ==
    IF m = 2 THEN (IF IsLeap(y) THEN 29 ELSE 28)
    ELSE IF m \in {4, 6, 9, 11} THEN 30 ELSE 31

\* datetime.strptime(s, fmt): [ok, dt]; ok = FALSE stands for ValueError
strptime(s, fmt) ==
    LET r == Match(s, fmt)
        g == r.got
    IN  [ok |-> /\ r.ok
                /\ r.end = Len(s) + 1
                /\ g.Y >= 1
                /\ g.d <= DaysInMonth(g.Y, g.m)
                /\ g.S <= 59,
         dt |-> g]

\* zero-padded decimal of width w
Pad(n, w) == IF Len(NatStr(n)) >= w THEN NatStr(n) ELSE SubSeq("000000", 1, w - Len(NatStr(n))) \o NatStr(n)

\* a strftime that writes day/month/year
strftime_dmy(dt) == Pad(dt.d, 2) \o "/" \o Pad(dt.m, 2) \o "/" \o Pad(dt.Y, 4)

\* dt.strftime('%Y-%m-%d').  The C library decides the padding of a year
\* below 1000 (glibc prints it unpadded); the dates drawn as inputs have
\* years of four digits, where every platform agrees.
strftime_ymd(dt) == Pad(dt.Y, 4) \o "-" \o Pad(dt.m, 2) \o "-" \o Pad(dt.d, 2)

-----------------------------------------------------------------------------
(* JsonParser._normalize_date *)

formats ==
    << "%Y-%m-%d", "%m/%d/%Y", "%d/%m/%Y", "%Y/%m/%d",
       "%Y-%m-%d %H:%M:%S", "%m/%d/%Y %H:%M:%S",
       "%Y-%m-%dT%H:%M:%S", "%Y-%m-%dT%H:%M:%S.%f" >>

RECURSIVE try_formats_last_first(_, _, _)
\* a loop that walks the formats from the last to the first
try_formats_last_first(date_str, a, b) ==
    IF a = b
    THEN LET r == strptime(date_str, formats[a])
         IN  [ok |-> r.ok, date |-> IF r.ok THEN strftime_ymd(r.dt) ELSE date_str]
    ELSE LET last == try_formats_last_first(date_str, (a + b) \div 2 + 1, b)
         IN  IF last.ok THEN last ELSE try_formats_last_first(date_str, a, (a + b) \div 2)

RECURSIVE TryFormats(_, _, _)
\* the for loop over the formats a..b, as [ok, date]: the date that the
\* first format to parse date_str gives, ok = FALSE when none of them parses
TryFormats(date_str, a, b) ==
    IF a = b
    THEN LET r == strptime(date_str, formats[a])
         IN  [ok |-> r.ok, date |-> IF r.ok THEN strftime_ymd(r.dt) ELSE date_str]
    ELSE LET first == TryFormats(date_str, a, (a + b) \div 2)
         IN  IF first.ok THEN first ELSE TryFormats(date_str, (a + b) \div 2 + 1, b)

_normalize_date(date_str) == TryFormats(date_str, 1, Len(formats)).date

-----------------------------------------------------------------------------
(* JsonParser._normalize_value *)

\* a normalizer whose last line returns value instead of str_value
normalize_value_unconverted(field_name, value) ==
    IF value = None THEN Str("")
    ELSE LET str_value == strip(PyStr(value))
         IN  IF field_name = "package_weight"
             THEN LET match == weight_search(str_value)
                  IN  Str(IF match.found THEN match.group ELSE str_value)
             ELSE IF field_name = "shipping_date"
             THEN Str(_normalize_date(str_value))
             ELSE IF field_name \in {"shipper_address", "recipient_address"}
             THEN Str(_normalize_address(str_value))
             ELSE value

_normalize_value(field_name, value) ==
    IF value = None THEN Str("")
    ELSE LET str_value == strip(PyStr(value))
         IN  IF field_name = "package_weight"
             THEN LET match == weight_search(str_value)
                  IN  Str(IF match.found THEN match.group ELSE str_value)
             ELSE IF field_name = "shipping_date"
             THEN Str(_normalize_date(str_value))
             ELSE IF field_name \in {"shipper_address", "recipient_address"}
             THEN Str(_normalize_address(str_value))
             ELSE Str(str_value)

-----------------------------------------------------------------------------
(* JsonParser.parse_json_data *)

\* datetime.isoformat() of the clock reading dt
isoformat(dt) ==
    strftime_ymd(dt) \o "T" \o Pad(dt.H, 2) \o ":" \o Pad(dt.M, 2) \o ":" \o Pad(dt.S, 2)
        \o (IF dt.f = 0 THEN "" ELSE "." \o Pad(dt.f, 6))

RECURSIVE found_values_consuming(_, _, _)
\* a loop that takes the item a field was resolved from out of the document
\* before the next field is resolved
found_values_consuming(flattened, a, b) ==
    IF a > b THEN <<>>
    ELSE LET value == _find_value_by_keys(flattened, field_mappings[a].keys)
         IN  <<value>> \o found_values_consuming(
                              SelectSeq(flattened, LAMBDA item : value = None \/ item[2] # value),
                              a + 1, b)

RECURSIVE FoundValues(_, _, _)
\* line 93, for the fields a..b of the table: the local  value  of each
\* iteration
FoundValues(flattened, a, b) ==
    IF a > b THEN <<>>
    ELSE IF a = b THEN <<_find_value_by_keys(flattened, field_mappings[a].keys)>>
    ELSE FoundValues(flattened, a, (a + b) \div 2) \o FoundValues(flattened, (a + b) \div 2 + 1, b)

\* lines 94-95: the entry one iteration adds to standardized_data
StoreField(standard_field, value) ==
    IF value # None
    THEN << <<standard_field, _normalize_value(standard_field, value)>> >>
    ELSE <<>>

RECURSIVE Standardize(_, _, _)
\* lines 91-95: the entries that the fields a..b of the table add to
\* standardized_data, in order (the fields of the table are distinct, so
\* every assignment adds an entry)
Standardize(values, a, b) ==
    IF a > b THEN <<>>
    ELSE IF a = b THEN StoreField(field_mappings[a].field, values[a])
    ELSE Standardize(values, a, (a + b) \div 2) \o Standardize(values, (a + b) \div 2 + 1, b)

RECURSIVE StrList(_)
\* [Str(k) for k in keys]
StrList(keys) ==
    IF Len(keys) = 0 THEN <<>>
    ELSE IF Len(keys) = 1 THEN <<Str(keys[1])>>
    ELSE StrList(SubSeq(keys, 1, Len(keys) \div 2))
             \o StrList(SubSeq(keys, Len(keys) \div 2 + 1, Len(keys)))

\* lines 98-102
Metadata(flattened, standardized, now) ==
    Dict(<< <<"parsed_at", Str(isoformat(now))>>,
            <<"original_keys", List(StrList(DictKeys(flattened)))>>,
            <<"found_mappings", Dict(standardized)>> >>)

\* lines 98-105: the returned dict
AddMetadata(flattened, standardized, now) ==
    Put(standardized, "_metadata", Metadata(flattened, standardized, now))

parse_json_data(d, now) ==
    LET flattened == _flatten_json(d, "")
        values == FoundValues(flattened, 1, Len(field_mappings))
    IN  AddMetadata(flattened, Standardize(values, 1, Len(field_mappings)), now)

-----------------------------------------------------------------------------
(* float(x), as far as the comparisons of validate_parsed_data need it: a  *)
(* result is [ok, kind, neg, mant, exp], the number  -1^neg * mant * 10^exp *)
(* when kind = "finite"; ok = FALSE stands for ValueError or TypeError      *)

NotFloat == [ok |-> FALSE, kind |-> "error", neg |-> FALSE, mant |-> 0, exp |-> 0]
Finite(neg, mant, exp) == [ok |-> TRUE, kind |-> "finite", neg |-> neg, mant |-> mant, exp |-> exp]
Special(kind, neg) == [ok |-> TRUE, kind |-> kind, neg |-> neg, mant |-> 0, exp |-> 0]

\* the index following the run of characters of set that starts at index i
RunEnd(s, i, set) ==
    CHOOSE j \in i..(Len(s) + 1) :
        /\ \A k \in i..(j - 1) : CharAt(s, k) \in set
        /\ j = Len(s) + 1 \/ CharAt(s, j) \notin set

\* a run of digits and underscores is well formed: every underscore stands
\* between two digits
DigitRun(run) ==
    \A k \in 1..Len(run) :
        CharAt(run, k) = "_" =>
            /\ k > 1 /\ k < Len(run)
            /\ IsDigit(CharAt(run, k - 1)) /\ IsDigit(CharAt(run, k + 1))

\* the digits of a run, its underscores left out
RunDigits(run) == replace(run, "_", "")

Pow10(k) == <<1, 10, 100, 1000, 10000, 100000>>[k + 1]

\* float(s) for a string without surrounding whitespace and without sign:
\* inf, infinity and nan in any case, or digits with an optional point and
\* an optional exponent
FloatRun == DigitSet \cup {"_"}

\* the literal once its three runs are cut out: digits, ".", digits, and an
\* exponent of "e" or "E", a sign and digits
FloatOfRuns(body, neg, int_end, frac_from, frac_end, exp_from, exp_end) ==
    LET int_run == SubSeq(body, 1, int_end - 1)
        frac_run == SubSeq(body, frac_from, frac_end - 1)
        exp_run == SubSeq(body, exp_from, exp_end - 1)
        has_exp == exp_from > frac_end
        exp_neg == exp_from = frac_end + 2 /\ CharAt(body, frac_end + 1) = "-"
        exp_digits == ToInt(RunDigits(exp_run))
    IN  IF /\ exp_end = Len(body) + 1
           /\ int_run # "" \/ frac_run # ""
           /\ DigitRun(int_run) /\ DigitRun(frac_run)
           /\ has_exp => (exp_run # "" /\ DigitRun(exp_run))
        THEN Finite(neg, ToInt(RunDigits(int_run) \o RunDigits(frac_run)),
                    (IF exp_neg THEN 0 - exp_digits ELSE exp_digits)
                        - Len(RunDigits(frac_run)))
        ELSE NotFloat

\* the exponent, which begins where the fraction ends
FloatExponent(body, neg, int_end, frac_from, frac_end) ==
    LET has_exp == frac_end <= Len(body) /\ CharAt(body, frac_end) \in {"e", "E"}
        exp_signed == has_exp /\ frac_end + 1 <= Len(body)
                          /\ CharAt(body, frac_end + 1) \in {"+", "-"}
    IN  IF ~has_exp
        THEN FloatOfRuns(body, neg, int_end, frac_from, frac_end, frac_end, frac_end)
        ELSE IF exp_signed
        THEN FloatOfRuns(body, neg, int_end, frac_from, frac_end, frac_end + 2,
                         RunEnd(body, frac_end + 2, FloatRun))
        ELSE FloatOfRuns(body, neg, int_end, frac_from, frac_end, frac_end + 1,
                         RunEnd(body, frac_end + 1, FloatRun))

\* the fraction, which begins where the integer digits end
FloatFraction(body, neg, int_end) ==
    IF int_end <= Len(body) /\ CharAt(body, int_end) = "."
    THEN FloatExponent(body, neg, int_end, int_end + 1,
                       RunEnd(body, int_end + 1, FloatRun))
    ELSE FloatExponent(body, neg, int_end, int_end, int_end)

UnsignedFloat(body, neg) ==
    IF lower(body) \in {"inf", "infinity"} THEN Special("inf", neg)
    ELSE IF lower(body) = "nan" THEN Special("nan", neg)
    ELSE FloatFraction(body, neg, RunEnd(body, 1, FloatRun))

\* float(x): a string is stripped and may carry a sign; None, lists and
\* dicts raise TypeError, a string that is no number raises ValueError
float(x) ==
    IF x.t = "num" THEN Finite(x.n < 0, IF x.n < 0 THEN 0 - x.n ELSE x.n, 0)
    ELSE IF x.t = "float" THEN Finite(FALSE, x.w * 10 + x.f, -1)
    ELSE IF x.t = "bool" THEN Finite(FALSE, IF x.b THEN 1 ELSE 0, 0)
    ELSE IF x.t = "str"
    THEN LET s == strip(x.s)
         IN  IF s # "" /\ CharAt(s, 1) \in {"+", "-"}
             THEN UnsignedFloat(SubSeq(s, 2, Len(s)), CharAt(s, 1) = "-")
             ELSE UnsignedFloat(s, FALSE)
    ELSE NotFloat

\* weight <= 0
LessEqualZero(weight) ==
    \/ weight.kind = "inf" /\ weight.neg
    \/ weight.kind = "finite" /\ (weight.mant = 0 \/ weight.neg)

\* weight > 1000
GreaterThan1000(weight) ==
    \/ weight.kind = "inf" /\ ~weight.neg
    \/ /\ weight.kind = "finite" /\ ~weight.neg /\ weight.mant > 0
       /\ IF weight.exp >= 0
          THEN weight.exp >= 4 \/ weight.mant * Pow10(weight.exp) > 1000
          ELSE 0 - weight.exp <= 5 /\ weight.mant > 1000 * Pow10(0 - weight.exp)

-----------------------------------------------------------------------------
(* JsonParser.validate_parsed_data *)

\* bool(x), the truth value that  not x  and  and x  take
Truthy(x) ==
    IF x.t = "null" THEN FALSE
    ELSE IF x.t = "bool" THEN x.b
    ELSE IF x.t = "num" THEN x.n # 0
    ELSE IF x.t = "float" THEN x.w # 0 \/ x.f # 0
    ELSE IF x.t = "str" THEN x.s # ""
    ELSE IF x.t = "list" THEN x.l # <<>>
    ELSE x.d # <<>>

required_fields == <<"shipper_name", "recipient_name", "package_weight", "shipping_date">>

\* lines 212-217
NewReport == [is_valid |-> TRUE, missing_required |-> <<>>, found_fields |-> <<>>, warnings |-> <<>>]

RECURSIVE check_required_absent_only(_, _, _, _)
\* a loop that lists a required field only when its key is absent
check_required_absent_only(d, report, a, b) ==
    IF a > b THEN report
    ELSE IF a = b
    THEN IF ~HasKey(d, required_fields[a])
         THEN [report EXCEPT !.missing_required = Append(@, required_fields[a]),
                                        !.is_valid = FALSE]
         ELSE report
    ELSE check_required_absent_only(
             d, check_required_absent_only(d, report, a, (a + b) \div 2),
             (a + b) \div 2 + 1, b)

RECURSIVE CheckRequired(_, _, _, _)
\* lines 220-223: the report after the iterations for the required fields a..b
CheckRequired(d, report, a, b) ==
    IF a > b THEN report
    ELSE IF a = b
    THEN IF ~HasKey(d, required_fields[a]) \/ ~Truthy(Get(d, required_fields[a]))
         THEN [report EXCEPT !.missing_required = Append(@, required_fields[a]),
                                        !.is_valid = FALSE]
         ELSE report
    ELSE CheckRequired(d, CheckRequired(d, report, a, (a + b) \div 2),
                       (a + b) \div 2 + 1, b)

RECURSIVE check_found_any_value(_, _, _, _)
\* a loop that lists every field whose key is present
check_found_any_value(d, report, a, b) ==
    IF a > b THEN report
    ELSE IF a = b
    THEN IF HasKey(d, field_mappings[a].field)
         THEN [report EXCEPT !.found_fields = Append(@, field_mappings[a].field)]
         ELSE report
    ELSE check_found_any_value(
             d, check_found_any_value(d, report, a, (a + b) \div 2),
             (a + b) \div 2 + 1, b)

\* lines 227-228: the report after the iteration for field
CheckField(d, report, field) ==
    IF HasKey(d, field) /\ Truthy(Get(d, field))
    THEN [report EXCEPT !.found_fields = Append(@, field)]
    ELSE report

RECURSIVE CheckFound(_, _, _, _)
\* lines 226-228: the report after the iterations for the fields a..b of the
\* table
CheckFound(d, report, a, b) ==
    IF a > b THEN report
    ELSE IF a = b THEN CheckField(d, report, field_mappings[a].field)
    ELSE CheckFound(d, CheckFound(d, report, a, (a + b) \div 2),
                    (a + b) \div 2 + 1, b)

NonPositive == "Package weight should be greater than 0"
UnusuallyHigh == "Package weight seems unusually high"
NotANumber == "Package weight is not a valid number"
InThePast == "Shipping date is in the past"
InvalidFormat == "Shipping date format is invalid"

\* lines 231-239: the warnings about the weight
WeightWarnings(d) ==
    IF ~HasKey(d, "package_weight") THEN <<>>
    ELSE LET weight == float(Get(d, "package_weight"))
         IN  IF ~weight.ok THEN <<NotANumber>>
             ELSE IF LessEqualZero(weight) THEN <<NonPositive>>
             ELSE IF GreaterThan1000(weight) THEN <<UnusuallyHigh>>
             ELSE <<>>

\* ship_date < now for two datetimes
Earlier(dt, now) ==
    LET a == <<dt.Y, dt.m, dt.d, dt.H, dt.M, dt.S, dt.f>>
        b == <<now.Y, now.m, now.d, now.H, now.M, now.S, now.f>>
    IN  \E i \in 1..7 : a[i] < b[i] /\ \A j \in 1..(i - 1) : a[j] = b[j]

\* lines 243-247: the warning for what strptime gave, ValueError or a date
WarningsOfDate(ship_date, now) ==
    IF ~ship_date.ok THEN <<InvalidFormat>>
    ELSE IF Earlier(ship_date.dt, now) THEN <<InThePast>>
    ELSE <<>>

\* date warnings that take a date for past only before the day of now
date_warnings_before_today(d, now) ==
    IF ~HasKey(d, "shipping_date") THEN [raised |-> FALSE, warnings |-> <<>>]
    ELSE IF Get(d, "shipping_date").t # "str" THEN [raised |-> TRUE, warnings |-> <<>>]
    ELSE [raised |-> FALSE,
          warnings |-> WarningsOfDate(strptime(Get(d, "shipping_date").s, "%Y-%m-%d"),
                                      [now EXCEPT !.H = 0, !.M = 0, !.S = 0, !.f = 0])]

\* lines 241-247: the warnings about the date; strptime raises TypeError,
\* which line 246 does not catch, when its argument is not a string
DateWarnings(d, now) ==
    IF ~HasKey(d, "shipping_date") THEN [raised |-> FALSE, warnings |-> <<>>]
    ELSE IF Get(d, "shipping_date").t # "str" THEN [raised |-> TRUE, warnings |-> <<>>]
    ELSE [raised |-> FALSE,
          warnings |-> WarningsOfDate(strptime(Get(d, "shipping_date").s, "%Y-%m-%d"), now)]

\* how the call ends, given the report before the date is looked at and
\* what lines 241-247 did: the exception leaves the method and no report is
\* returned, or the report is returned with the date warnings
Returned(report, date) ==
    IF date.raised
    THEN [raised |-> TRUE, error |-> "TypeError", report |-> NewReport]
    ELSE [raised |-> FALSE, error |-> "",
          report |-> [report EXCEPT !.warnings = @ \o date.warnings]]

\* the call as [raised, error, report]
validate_parsed_data(d, now) ==
    Returned([CheckFound(d, CheckRequired(d, NewReport, 1, Len(required_fields)),
                         1, Len(field_mappings))
                 EXCEPT !.warnings = @ \o WeightWarnings(d)],
             DateWarnings(d, now))

-----------------------------------------------------------------------------
(* The documents handed to parse_json_data *)

MaxEntries == 2
MaxDepth == 3
MaxArrayLen == 2

\* sequences of length 1..n over the set S
SeqsUpTo(S, n) == UNION {[1..k -> S] : k \in 1..n}

\* flat documents: up to MaxEntries distinct keys, each value None or a
\* string that names its position
ResolverKeys ==
    {"weight", "Weight", "WEIGHT", "package_weight", "package_weight_kg", "net_weight",
     "to", "recipient_address"}

PositionValue(j) == Str("v" \o NatStr(j))

FlatDocs ==
    {Dict([j \in 1..Len(ks) |-> <<ks[j], IF j \in nulls THEN None ELSE PositionValue(j)>>]) :
        <<ks, nulls>> \in {p \in SeqsUpTo(ResolverKeys, MaxEntries) \X SUBSET (1..MaxEntries) :
                              /\ \A i, j \in 1..Len(p[1]) : i # j => p[1][i] # p[1][j]
                              /\ p[2] \subseteq 1..Len(p[1])}}

\* one key, one value: the raw values the normalizer meets
RawKeys == {"weight", "dispatch_date", "from_addr", "remarks"}

RawValues ==
    {Str("25.3 lbs"), Str(".5 kg"), Str("-5 kg"), Str("abc"), Str("  12  "), Str("5."), Str(""),
     Str("-0.0"), Str("-inf"), Str("0 kg"),
     Num(-5), Num(0), Num(1500), Float(15, 8), Bool(TRUE), None,
     List(<<>>), List(<<Num(1), Str("a")>>),
     Str("01/25/2024"), Str("2024-01-15"), Str("13/01/2024"), Str("03/04/2024"),
     Str("2024-02-30"), Str("tomorrow"), Str("2024-01-15T10:20:30"), Str("nan"),
     Str("789 Industrial Way; Chicago, IL 60601"), Str(" a | b ;; c "), Str("|;"),
     Str("1234 Industrial Blvd\nSeattle, WA 98101")}

ValueDocs == {Dict(<< <<k, v>> >>) : k \in RawKeys, v \in RawValues}

\* nested documents: an object per level, alone or as the first element of
\* an array of up to MaxArrayLen elements
PathKey(n) ==
    IF n = 1 THEN "name" ELSE IF n = 2 THEN "sender" ELSE IF n = 3 THEN "shipment" ELSE "data"

Leaves ==
    {Str("ABC Corp"), None, List(<<>>),
     List(<<Num(1), Dict(<< <<"name", Str("x")>> >>)>>)}

\* the elements that follow the first one in an array: objects with keys of
\* their own and numbers, in turn
RestElem(n) ==
    IF n % 2 = 1 THEN Dict(<< <<"name", Str("other")>>, <<"weight", Num(7)>> >>) ELSE Num(9)

\* v itself, and the arrays of 1..MaxArrayLen elements that start with v
Wrap(V) ==
    V \cup {List(<<v>> \o [n \in 1..k |-> RestElem(n)]) : v \in V, k \in 0..(MaxArrayLen - 1)}

RECURSIVE Objs(_)
\* the objects of nesting depth n
Objs(n) ==
    IF n = 1 THEN {Dict(<< <<PathKey(1), v>> >>) : v \in Leaves}
    ELSE {Dict(<< <<PathKey(n), v>> >>) : v \in Wrap(Objs(n - 1))}

NestedDocs == UNION {Wrap(Objs(n)) : n \in 1..MaxDepth}

\* the samples of get_sample_json_formats, roots that are not objects,
\* objects of several nested entries, and keys that are empty or hold the separator
sample_1 ==
    Dict(<< <<"shipper_name", Str("Global Shipping Solutions Inc.")>>,
            <<"shipper_address", Str("1234 Industrial Blvd\nSeattle, WA 98101")>>,
            <<"recipient_name", Str("Pacific Coast Logistics")>>,
            <<"recipient_address", Str("567 Harbor View Drive\nSan Francisco, CA 94111")>>,
            <<"package_weight", Float(45, 5)>>,
            <<"package_dimensions", Str("24x18x12")>>,
            <<"tracking_number", Str("GS2024010001")>>,
            <<"shipping_date", Str("2024-01-15")>>,
            <<"special_instructions", Str("Handle with care - fragile electronics")>> >>)

sample_2 ==
    Dict(<< <<"shipment", Dict(<<
        <<"sender", Dict(<< <<"name", Str("ABC Corp")>>,
                            <<"address", Str("123 Main St | New York, NY 10001")>> >>)>>,
        <<"receiver", Dict(<< <<"name", Str("XYZ Ltd")>>,
                              <<"address", Str("456 Oak Ave | Los Angeles, CA 90001")>> >>)>>,
        <<"package", Dict(<< <<"weight", Str("25.3 lbs")>>,
                             <<"dimensions", Str("12x8x6 inches")>>,
                             <<"reference", Str("REF123456")>> >>)>>,
        <<"schedule", Dict(<< <<"pickup_date", Str("2024-01-20")>>,
                              <<"notes", Str("Fragile - handle with care")>> >>)>> >>)>> >>)

sample_3 ==
    Dict(<< <<"from_name", Str("Warehouse Solutions")>>,
            <<"from_addr", Str("789 Industrial Way; Chicago, IL 60601")>>,
            <<"to_name", Str("Distribution Center")>>,
            <<"to_addr", Str("321 Commerce Blvd; Phoenix, AZ 85001")>>,
            <<"weight", Float(15, 8)>>,
            <<"lwh", Str("10x10x10")>>,
            <<"awb_number", Str("AWB789012")>>,
            <<"dispatch_date", Str("01/25/2024")>>,
            <<"remarks", Str("Standard delivery")>> >>)

OtherDocs ==
    {sample_1, sample_2, sample_3,
     None, Num(5), Str("weight"), Bool(FALSE), List(<<>>), List(<<Num(1), Num(2)>>),
     List(<<Dict(<< <<"weight", Num(5)>> >>)>>),
     Dict(<<>>),
     Dict(<< <<"photo", Str("p.jpg")>> >>),
     Dict(<< <<"pkg", Num(3)>> >>),
     Dict(<< <<"", Str("e")>> >>),
     Dict(<< <<"a", Dict(<< <<"b", Num(1)>> >>)>>, <<"a.b", Num(2)>> >>),
     Dict(<< <<"a", List(<<Dict(<< <<"b", Num(1)>> >>), Dict(<< <<"c", Num(3)>> >>)>>)>>,
             <<"a.b", Num(2)>> >>),
     Dict(<< <<"", Dict(<< <<"weight", Num(1)>> >>)>>, <<"weight", Num(2)>> >>),
     Dict(<< <<"items", List(<<Dict(<< <<"weight", Str("2 kg")>> >>),
                              Dict(<< <<"ship_date", Str("2024-03-01")>> >>)>>)>>,
             <<"notes", List(<<Str("a"), Str("b")>>)>> >>),
     Dict(<< <<"weight", Dict(<<>>)>>, <<"notes", Dict(<< <<"x", List(<<>>)>> >>)>> >>)}

Documents == FlatDocs \cup ValueDocs \cup NestedDocs \cup OtherDocs

\* readings of datetime.now()
Nows ==
    {[Y |-> 2024, m |-> 1, d |-> 20, H |-> 9, M |-> 30, S |-> 0, f |-> 0],
     [Y |-> 2025, m |-> 6, d |-> 1, H |-> 23, M |-> 5, S |-> 59, f |-> 123456]}

-----------------------------------------------------------------------------
(* JsonParser.parse_json_file, and the files handed to it: a path that     *)
(* names no file, or a file with its text                                  *)

NoFile == [exists |-> FALSE, text |-> "", called |-> FALSE]
Missing == [exists |-> FALSE, text |-> "", called |-> TRUE]
FileOf(text) == [exists |-> TRUE, text |-> text, called |-> TRUE]

JSONDecodeError == [ok |-> FALSE, value |-> None]
Loaded(value) == [ok |-> TRUE, value |-> value]

\* a file with the nine canonical fields under their own names
ShipmentText ==
    "{\"shipper_name\": \"ABC Corp\", \"shipper_address\": \"1 Main St\", "
        \o "\"recipient_name\": \"XYZ Ltd\", \"recipient_address\": \"2 High St\", "
        \o "\"package_weight\": 45.5, \"package_dimensions\": \"24x18x12\", "
        \o "\"tracking_number\": \"GS2024010001\", \"shipping_date\": \"2024-01-15\", "
        \o "\"special_instructions\": \"Fragile\"}"

\* a file with fields that hold the empty string
EmptyValuesText ==
    "{\"shipper_name\": \"\", \"recipient_name\": \"XYZ Ltd\", "
        \o "\"weight\": \"0 kg\", \"notes\": \"\"}"

\* json.load on the texts drawn: the value, or JSONDecodeError
json_load ==
    << <<"{\"weight\": \"25.3 lbs\", \"to\": {\"name\": \"XYZ Ltd\"}}",
         Loaded(Dict(<< <<"weight", Str("25.3 lbs")>>,
                        <<"to", Dict(<< <<"name", Str("XYZ Ltd")>> >>)>> >>))>>,
       <<" {\"ship_date\": \"01/25/2024\", \"from_addr\": null}\n",
         Loaded(Dict(<< <<"ship_date", Str("01/25/2024")>>, <<"from_addr", None>> >>))>>,
       <<"{}", Loaded(Dict(<<>>))>>,
       <<"[{\"weight\": 5}]", Loaded(List(<<Dict(<< <<"weight", Num(5)>> >>)>>))>>,
       <<"[]", Loaded(List(<<>>))>>,
       <<"45.5", Loaded(Float(45, 5))>>,
       <<"null", Loaded(None)>>,
       <<"true", Loaded(Bool(TRUE))>>,
       <<"\"ABC Corp\"", Loaded(Str("ABC Corp"))>>,
       <<ShipmentText,
         Loaded(Dict(<< <<"shipper_name", Str("ABC Corp")>>,
                        <<"shipper_address", Str("1 Main St")>>,
                        <<"recipient_name", Str("XYZ Ltd")>>,
                        <<"recipient_address", Str("2 High St")>>,
                        <<"package_weight", Float(45, 5)>>,
                        <<"package_dimensions", Str("24x18x12")>>,
                        <<"tracking_number", Str("GS2024010001")>>,
                        <<"shipping_date", Str("2024-01-15")>>,
                        <<"special_instructions", Str("Fragile")>> >>))>>,
       <<EmptyValuesText,
         Loaded(Dict(<< <<"shipper_name", Str("")>>, <<"recipient_name", Str("XYZ Ltd")>>,
                        <<"weight", Str("0 kg")>>, <<"notes", Str("")>> >>))>>,
       <<"", JSONDecodeError>>,
       <<"{", JSONDecodeError>>,
       <<"{'weight': 5}", JSONDecodeError>>,
       <<"[1,]", JSONDecodeError>>,
       <<"{\"weight\": 5} x", JSONDecodeError>>,
       <<"weight: 5", JSONDecodeError>> >>

Texts == {json_load[i][1] : i \in 1..Len(json_load)}

Files == {Missing} \cup {FileOf(text) : text \in Texts}

\* a loader that takes a file it cannot load for the empty document
load_file_or_empty(f) ==
    IF ~f.exists THEN [raised |-> FALSE, error |-> "", raw_data |-> Dict(<<>>)]
    ELSE LET loaded == Get(json_load, f.text)
         IN  IF loaded.ok THEN [raised |-> FALSE, error |-> "", raw_data |-> loaded.value]
             ELSE [raised |-> FALSE, error |-> "", raw_data |-> Dict(<<>>)]

\* lines 67-72 as [raised, error, raw_data]: the exceptions are logged and
\* raised again by lines 77-82
LoadFile(f) ==
    IF ~f.exists THEN [raised |-> TRUE, error |-> "FileNotFoundError", raw_data |-> None]
    ELSE LET loaded == Get(json_load, f.text)
         IN  IF loaded.ok THEN [raised |-> FALSE, error |-> "", raw_data |-> loaded.value]
             ELSE [raised |-> TRUE, error |-> "JSONDecodeError", raw_data |-> None]

-----------------------------------------------------------------------------
(* The records handed to validate_parsed_data by a caller that did not get *)
(* them from parse_json_data: any mapping is accepted                      *)

WeightValues ==
    {Str("0"), Str("1500"), Str("1000"), Str("1000.5"), Str("45.5"), Str("abc"), Str(""),
     Str("-5"), Str("nan"), Str("inf"), Str(" 1e3 "), Str("1_0"), Str("5."), Str("+.5e1"),
     Num(0), Num(1500), Float(45, 5), Bool(TRUE), None, List(<<>>), List(<<Num(1)>>)}

DateValues ==
    {Str("2024-01-15"), Str("2024-01-20"), Str("2025-06-02"), Str("2999-01-05"),
     Str("2024-1-5"), Str("01/25/2024"), Str("2024-02-30"), Str(""), Str("tomorrow"),
     Str(" 2024-01-05"), Num(20240115), None, List(<<Str("2024-01-15")>>)}

\* the key absent, or present with one of the values
Entries(key, values) == {<<>>} \cup {<< <<key, v>> >> : v \in values}

Records ==
    {shipper \o recipient \o weight \o date :
        shipper \in Entries("shipper_name", {Str("ABC Corp"), Str("")}),
        recipient \in Entries("recipient_name", {Str("XYZ Ltd")}),
        weight \in Entries("package_weight", WeightValues),
        date \in Entries("shipping_date", DateValues)}

\* records whose keys stand in another order than the fields of the table
ReorderedRecords ==
    {date \o tracking \o weight \o shipper :
        date \in Entries("shipping_date", {Str("2999-01-05")}),
        tracking \in Entries("tracking_number", {Str("GS2024010001"), Str("")}),
        weight \in Entries("package_weight", {Str("45.5")}),
        shipper \in Entries("shipper_name", {Str("ABC Corp")})} \ {<<>>}

\* the readings of datetime.now() at line 244
ValidationNows ==
    Nows \cup {[Y |-> 2024, m |-> 1, d |-> 15, H |-> 0, M |-> 0, S |-> 0, f |-> 0]}

-----------------------------------------------------------------------------
(* The state machine: a caller holds a document and calls parse_json_data, *)
(* or a path and calls parse_json_file, or a record and calls              *)
(* validate_parsed_data                                                    *)

Init ==
    /\ \/ pc = "start" /\ data \in Documents /\ record = <<>> /\ file = NoFile
       \/ pc = "file" /\ data = None /\ record = <<>> /\ file \in Files
       \/ pc = "record" /\ data = None /\ record \in Records \cup ReorderedRecords
              /\ file = NoFile
    /\ validation_report = NewReport
    /\ error = ""
    /\ validated_at = NoFields
    /\ flattened_data = <<>>
    /\ raw_values = [i \in FieldIndex |-> None]
    /\ found_mappings = <<>>
    /\ standardized_data = <<>>
    /\ previous = None
    /\ self_field_mappings = field_mappings
    /\ calls = <<>>
    /\ NoAutomation

\* the steps of parse_json_data on the document d, each on the result of
\* the one before: found_mappings holds the entries of standardized_data
\* when the loop ends, which line 101 copies into the metadata
Parse(d) ==
    /\ flattened_data' = _flatten_json(d, "")
    /\ raw_values' = FoundValues(flattened_data', 1, Len(field_mappings))
    /\ found_mappings' = Standardize(raw_values', 1, Len(field_mappings))
    /\ \E now \in Nows :
          standardized_data' = AddMetadata(flattened_data', found_mappings', now)

ParseJsonData ==
    /\ pc = "start"
    /\ Parse(data)
    /\ pc' = "parsed"
    /\ UNCHANGED <<data, previous, record, validation_report, error, validated_at, file>>
    /\ UNCHANGED shared
    /\ UNCHANGED automation

\* parse_json_file: the exception of lines 67-72 leaves the call, or the
\* loaded document goes through parse_json_data (line 75)
ParseJsonFile ==
    /\ pc = "file"
    /\ LET load == LoadFile(file)
       IN  \/ /\ load.raised
              /\ error' = load.error
              /\ pc' = "failed"
              /\ UNCHANGED <<data, flattened_data, raw_values, found_mappings,
                             standardized_data>>
           \/ /\ ~load.raised
              /\ data' = load.raw_data
              /\ Parse(data')
              /\ pc' = "parsed"
              /\ UNCHANGED error
    /\ UNCHANGED <<previous, record, validation_report, validated_at, file>>
    /\ UNCHANGED shared
    /\ UNCHANGED automation

\* the caller hands the canonical fields of the record it got, as a flat
\* document, to parse_json_data again
ResubmitRecord ==
    /\ pc = "parsed"
    /\ previous = None
    /\ previous' = Dict(found_mappings)
    /\ data' = previous'
    /\ flattened_data' = <<>>
    /\ raw_values' = [i \in FieldIndex |-> None]
    /\ found_mappings' = <<>>
    /\ standardized_data' = <<>>
    /\ pc' = "start"
    /\ UNCHANGED <<record, validation_report, error, validated_at, file>>
    /\ UNCHANGED shared
    /\ UNCHANGED automation

\* the caller validates the record that parse_json_data returned, or the
\* record it holds: the report is returned, or the exception leaves the call
ValidateParsedData ==
    /\ pc \in {"parsed", "record"}
    /\ record' = IF pc = "parsed" THEN standardized_data ELSE record
    /\ \E now \in ValidationNows :
          \E call \in {validate_parsed_data(record', now)} :
              /\ validated_at' = now
              /\ validation_report' = call.report
              /\ error' = call.error
              /\ pc' = IF call.raised THEN "raised" ELSE "validated"
    /\ UNCHANGED <<data, flattened_data, raw_values, found_mappings, standardized_data,
                   previous, file>>
    /\ UNCHANGED shared
    /\ UNCHANGED automation

Next ==
    \/ ParseJsonData
    \/ ParseJsonFile
    \/ ResubmitRecord
    \/ ValidateParsedData

Spec == Init /\ [][Next]_vars

-----------------------------------------------------------------------------
(* Calls in flight on one parser: the parser object holds the alias table  *)
(* (line 18), every call holds its own locals, and the steps of the calls  *)
(* interleave in any order                                                 *)

Calls == {1, 2}

CallDocs ==
    {sample_2, sample_3,
     Dict(<< <<"shipper", Str("A")>>, <<"shipper_name", Str("B")>>,
             <<"Weight", Str("25.3 lbs")>> >>),
     Dict(<< <<"to", Str("x")>>, <<"ship_date", Str("03/04/2024")>> >>)}

CallRecords ==
    {<< <<"shipping_date", Str("2024-01-20")>>, <<"tracking_number", Str("")>>,
        <<"package_weight", Str("1500")>>, <<"shipper_name", Str("ABC Corp")>> >>,
     << <<"recipient_name", Str("XYZ Ltd")>>, <<"package_weight", Str("abc")>> >>,
     << <<"shipper_name", Str("")>>, <<"shipping_date", None>> >>}

\* a call that has not begun: its method, its argument, a document or a
\* record as a dict (given keeps the argument as the caller passed it), and
\* its locals
NewCall(method, argument) ==
    [method |-> method, data |-> argument, given |-> argument, pc |-> "start", i |-> 1,
     flattened_data |-> <<>>, standardized_data |-> <<>>,
     validation_report |-> NewReport, now |-> NoFields]

\* a loop over the table that moves the alias it tried first to the end of
\* the field's list
field_mappings_rotated(table, i) ==
    [table EXCEPT ![i].keys = Tail(@) \o <<Head(@)>>]

\* lines 92-93 and 226-227: the table after the iteration for its i-th
\* field; the loops read self.field_mappings and assign to no part of it
field_mappings_after(table, i) == table

InitCalls ==
    /\ self_field_mappings = field_mappings
    /\ calls \in [Calls -> {NewCall("parse_json_data", d) : d \in CallDocs}
                              \cup {NewCall("validate_parsed_data", Dict(r)) : r \in CallRecords}]
    /\ data = None
    /\ pc = "calls"
    /\ flattened_data = <<>>
    /\ raw_values = [i \in FieldIndex |-> None]
    /\ found_mappings = <<>>
    /\ standardized_data = <<>>
    /\ previous = None
    /\ record = <<>>
    /\ validation_report = NewReport
    /\ error = ""
    /\ validated_at = NoFields
    /\ file = NoFile
    /\ NoAutomation

\* line 88
FlattenStep(c) ==
    /\ calls[c].method = "parse_json_data" /\ calls[c].pc = "start"
    /\ calls' = [calls EXCEPT ![c].flattened_data = _flatten_json(calls[c].data, ""),
                              ![c].pc = "loop"]
    /\ UNCHANGED self_field_mappings
    /\ UNCHANGED single
    /\ UNCHANGED automation

\* lines 92-95: one iteration of the loop over self.field_mappings.items()
MapFieldStep(c) ==
    /\ calls[c].method = "parse_json_data" /\ calls[c].pc = "loop"
    /\ LET i == calls[c].i
           standard_field == self_field_mappings[i].field
           possible_keys == self_field_mappings[i].keys
           value == _find_value_by_keys(calls[c].flattened_data, possible_keys)
       IN  /\ calls' = [calls EXCEPT
                           ![c].standardized_data = @ \o StoreField(standard_field, value),
                           ![c].i = i + 1,
                           ![c].pc = IF i = Len(self_field_mappings)
                                     THEN "metadata" ELSE "loop"]
           /\ self_field_mappings' = field_mappings_after(self_field_mappings, i)
    /\ UNCHANGED single
    /\ UNCHANGED automation

\* lines 98-105
MetadataStep(c) ==
    /\ calls[c].method = "parse_json_data" /\ calls[c].pc = "metadata"
    /\ \E now \in Nows :
          calls' = [calls EXCEPT
                       ![c].standardized_data =
                           AddMetadata(calls[c].flattened_data, @, now),
                       ![c].now = now,
                       ![c].pc = "done"]
    /\ UNCHANGED self_field_mappings
    /\ UNCHANGED single
    /\ UNCHANGED automation

\* lines 210-223
RequiredStep(c) ==
    /\ calls[c].method = "validate_parsed_data" /\ calls[c].pc = "start"
    /\ calls' = [calls EXCEPT
                    ![c].validation_report =
                        CheckRequired(calls[c].data.d, NewReport, 1, Len(required_fields)),
                    ![c].pc = "found"]
    /\ UNCHANGED self_field_mappings
    /\ UNCHANGED single
    /\ UNCHANGED automation

\* lines 226-228: one iteration of the loop over self.field_mappings.keys()
FoundStep(c) ==
    /\ calls[c].method = "validate_parsed_data" /\ calls[c].pc = "found"
    /\ LET i == calls[c].i
       IN  /\ calls' = [calls EXCEPT
                           ![c].validation_report =
                               CheckField(calls[c].data.d, @, self_field_mappings[i].field),
                           ![c].i = i + 1,
                           ![c].pc = IF i = Len(self_field_mappings)
                                     THEN "warnings" ELSE "found"]
           /\ self_field_mappings' = field_mappings_after(self_field_mappings, i)
    /\ UNCHANGED single
    /\ UNCHANGED automation

\* lines 231-250: the report is returned, or TypeError leaves the call
WarningsStep(c) ==
    /\ calls[c].method = "validate_parsed_data" /\ calls[c].pc = "warnings"
    /\ \E now \in ValidationNows :
          \E date \in {DateWarnings(calls[c].data.d, now)} :
              calls' = [calls EXCEPT
                           ![c].validation_report =
                               IF date.raised THEN NewReport
                               ELSE [@ EXCEPT !.warnings =
                                        @ \o WeightWarnings(calls[c].data.d) \o date.warnings],
                           ![c].now = now,
                           ![c].pc = IF date.raised THEN "raised" ELSE "done"]
    /\ UNCHANGED self_field_mappings
    /\ UNCHANGED single
    /\ UNCHANGED automation

NextCalls ==
    \/ \E c \in Calls : FlattenStep(c)
    \/ \E c \in Calls : MapFieldStep(c)
    \/ \E c \in Calls : MetadataStep(c)
    \/ \E c \in Calls : RequiredStep(c)
    \/ \E c \in Calls : FoundStep(c)
    \/ \E c \in Calls : WarningsStep(c)

SpecCalls == InitCalls /\ [][NextCalls]_vars

-----------------------------------------------------------------------------
(* FileUtils.validate_file, and the files config['upload_file'] may name    *)

\* the supported extensions with their maximum sizes in bytes
SUPPORTED_TYPES ==
    << <<".json", 1024 * 1024>>,
       <<".pdf", 10 * 1024 * 1024>>,
       <<".csv", 2 * 1024 * 1024>>,
       <<".xml", 1024 * 1024>>,
       <<".txt", 1024 * 1024>> >>

\* the position of the last "." of a name, 0 when it has none
LastDot(name) ==
    LET dots == {i \in 1..Len(name) : CharAt(name, i) = "."}
    IN  IF dots = {} THEN 0 ELSE CHOOSE i \in dots : \A j \in dots : j <= i

\* Path.suffix: the name from its last "." on, empty when the name has no
\* "." or only a leading or a trailing one
suffix(name) ==
    IF 1 < LastDot(name) /\ LastDot(name) < Len(name)
    THEN SubSeq(name, LastDot(name), Len(name))
    ELSE ""

\* what a path names: nothing, or a directory or a file with its name, its
\* size and whether the process may read it
NoUploadFile ==
    [exists |-> FALSE, is_file |-> FALSE, name |-> "", size |-> 0, readable |-> FALSE]

UploadFileOf(name, size, readable) ==
    [exists |-> TRUE, is_file |-> TRUE, name |-> name, size |-> size, readable |-> readable]

UploadFiles ==
    {[NoUploadFile EXCEPT !.name = "shipment_data.json"],
     [UploadFileOf("uploads.json", 4096, TRUE) EXCEPT !.is_file = FALSE],
     UploadFileOf("shipment_data.json", 512, TRUE),
     UploadFileOf("shipment_data.json", 1024 * 1024, TRUE),
     UploadFileOf("shipment_data.json", 1024 * 1024 + 1, TRUE),
     UploadFileOf("shipment_data.json", 512, FALSE),
     UploadFileOf("SHIPMENT.JSON", 0, TRUE),
     UploadFileOf("manifest.pdf", 1024 * 1024 + 1, TRUE),
     UploadFileOf("manifest.pdf", 10 * 1024 * 1024 + 1, TRUE),
     UploadFileOf("setup.exe", 512, TRUE),
     UploadFileOf("README", 512, TRUE),
     UploadFileOf(".json", 512, TRUE),
     UploadFileOf("shipment.json.bak", 512, TRUE)}

\* lines 25-61: the tuple (is_valid, error_message)
validate_file(f) ==
    IF ~f.exists THEN <<FALSE, "File not found">>
    ELSE IF ~f.is_file THEN <<FALSE, "Path is not a file">>
    ELSE IF ~HasKey(SUPPORTED_TYPES, lower(suffix(f.name)))
    THEN <<FALSE, "Unsupported file type">>
    ELSE IF f.size > Get(SUPPORTED_TYPES, lower(suffix(f.name)))
    THEN <<FALSE, "File too large">>
    ELSE IF ~f.readable THEN <<FALSE, "File is not readable">>
    ELSE <<TRUE, "File is valid">>

\* bool(x) of a tuple: true unless the tuple is empty
TruthyTuple(x) == Len(x) # 0

-----------------------------------------------------------------------------
(* NovaActAutomation.run_automation: the calls made on the browser session  *)
(* are kept in nova, each with the prompt and whether it returned or raised *)

Act(prompt, ok) == [call |-> prompt, ok |-> ok]

\* the calls of a method that makes them in order until one raises: the
\* first n return and the next one, if there is one, raises
Acts(prompts, n) ==
    [i \in 1..(IF n < Len(prompts) THEN n + 1 ELSE Len(prompts)) |-> Act(prompts[i], i <= n)]

\* lines 109-111, with the username and the password of lines 50-51
LoginPrompts ==
    <<"Enter 'shipping_admin' in the username field",
      "Enter 'secure_pass123' in the password field",
      "Click the login button to submit the form">>

NavigatePrompt ==
    "Click on the 'New Shipment' or 'Shipment Form' link to navigate to the form"

\* lines 168-197: the keys read and the field each is entered in
form_fields ==
    << [key |-> "shipper_name", label |-> "shipper name"],
       [key |-> "shipper_address", label |-> "shipper address"],
       [key |-> "recipient_name", label |-> "recipient name"],
       [key |-> "recipient_address", label |-> "recipient address"],
       [key |-> "package_weight", label |-> "package weight"],
       [key |-> "package_dimensions", label |-> "package dimensions"],
       [key |-> "tracking_number", label |-> "tracking number"],
       [key |-> "shipping_date", label |-> "shipping date"],
       [key |-> "special_instructions", label |-> "special instructions"] >>

FillPrompt(d, f) ==
    "Enter '" \o PyStr(Get(d, f.key)) \o "' in the " \o f.label \o " field"

\* lines 168-197: a field is entered when data.get(key) is true
FillPrompts(d) ==
    LET entered == SelectSeq(form_fields,
                             LAMBDA f : HasKey(d, f.key) /\ Truthy(Get(d, f.key)))
    IN  [i \in 1..Len(entered) |-> FillPrompt(d, entered[i])]

LocatePrompt == "Locate the file upload input field on the form"
SetInputFiles == "set_input_files"
CheckPrompt ==
    "Check if any form fields have been populated or if the file upload field shows a filename"
SubmitPrompt == "Click the submit button to submit the shipment form"
ExtractPrompt ==
    "Extract the confirmation number, submission time, and status from the success page"
ReturnTextPrompt == "Return all visible text from the success page"

\* line 130: range(3)
Attempts == 3

InitAutomation ==
    /\ use_manual_filling \in BOOLEAN
    /\ upload_file \in UploadFiles
    /\ shipment_data = <<>>
    /\ attempt = 0
    /\ nova = <<>>
    /\ step = "load"
    /\ raised = ""
    /\ confirmation = ""
    /\ self_field_mappings = field_mappings
    /\ calls = <<>>
    /\ data = None
    /\ pc = "automation"
    /\ flattened_data = <<>>
    /\ raw_values = [i \in FieldIndex |-> None]
    /\ found_mappings = <<>>
    /\ standardized_data = <<>>
    /\ previous = None
    /\ record = <<>>
    /\ validation_report = NewReport
    /\ error = ""
    /\ validated_at = NoFields
    /\ file = NoFile

\* lines 67-94: the data file is parsed and the record validated; the report
\* is logged only, and an exception of either call leaves run_automation
LoadShipmentData ==
    /\ step = "load" /\ raised = ""
    /\ \E f \in Files, now \in Nows :
          \E load \in {LoadFile(f)} :
             IF load.raised
             THEN raised' = load.error /\ UNCHANGED <<shipment_data, step>>
             ELSE \E parsed_data \in {parse_json_data(load.raw_data, now)} :
                     \E call \in {validate_parsed_data(parsed_data, now)} :
                        IF call.raised
                        THEN raised' = call.error /\ UNCHANGED <<shipment_data, step>>
                        ELSE /\ shipment_data' = parsed_data
                             /\ step' = "start"
                             /\ UNCHANGED raised
    /\ UNCHANGED <<use_manual_filling, upload_file, attempt, nova, confirmation>>
    /\ UNCHANGED single
    /\ UNCHANGED shared

\* lines 358-363: the browser session starts, or NovaAct raises
StartNovaAct ==
    /\ step = "start" /\ raised = ""
    /\ \E ok \in BOOLEAN :
          IF ok THEN step' = "login" /\ UNCHANGED raised
          ELSE raised' = "StartFailed" /\ UNCHANGED step
    /\ UNCHANGED <<use_manual_filling, upload_file, shipment_data, attempt, nova, confirmation>>
    /\ UNCHANGED single
    /\ UNCHANGED shared

\* lines 100-119
LoginToPortal ==
    /\ step = "login" /\ raised = ""
    /\ \E n \in 0..Len(LoginPrompts) :
          /\ nova' = nova \o Acts(LoginPrompts, n)
          /\ IF n = Len(LoginPrompts) THEN step' = "navigate" /\ UNCHANGED raised
             ELSE raised' = "ActError" /\ UNCHANGED step
    /\ UNCHANGED <<use_manual_filling, upload_file, shipment_data, attempt, confirmation>>
    /\ UNCHANGED single
    /\ UNCHANGED shared

\* a retry loop without the break of line 133: it clicks on after a click
\* that succeeded
navigate_without_break ==
    /\ step = "navigate" /\ raised = "" /\ attempt < Attempts
    /\ \E ok \in BOOLEAN :
          /\ nova' = Append(nova, Act(NavigatePrompt, ok))
          /\ IF ok \/ attempt < 2
             THEN /\ attempt' = attempt + 1
                  /\ step' = IF attempt' < Attempts THEN step ELSE "process"
                  /\ UNCHANGED raised
             ELSE raised' = "ActError" /\ UNCHANGED <<attempt, step>>
    /\ UNCHANGED <<use_manual_filling, upload_file, shipment_data, confirmation>>
    /\ UNCHANGED single
    /\ UNCHANGED shared

\* lines 130-138: one iteration of the loop of navigate_to_shipment_form; a
\* click that returns breaks out of the loop, a click that raises is retried
\* unless attempt is 2, and the loop ends when the range is used up
NavigateToShipmentForm ==
    /\ step = "navigate" /\ raised = "" /\ attempt < Attempts
    /\ \E ok \in BOOLEAN :
          /\ nova' = Append(nova, Act(NavigatePrompt, ok))
          /\ IF ok
             THEN step' = "process" /\ UNCHANGED <<attempt, raised>>
             ELSE IF attempt = 2
             THEN raised' = "ActError" /\ UNCHANGED <<attempt, step>>
             ELSE /\ attempt' = attempt + 1
                  /\ step' = IF attempt' < Attempts THEN step ELSE "process"
                  /\ UNCHANGED raised
    /\ UNCHANGED <<use_manual_filling, upload_file, shipment_data, confirmation>>
    /\ UNCHANGED single
    /\ UNCHANGED shared

\* lines 154-156 and 162-202: manual mode
FillShipmentForm ==
    /\ step = "process" /\ raised = "" /\ use_manual_filling
    /\ \E prompts \in {FillPrompts(shipment_data)} :
          \E n \in 0..Len(prompts) :
             /\ nova' = nova \o Acts(prompts, n)
             /\ IF n = Len(prompts) THEN step' = "submit" /\ UNCHANGED raised
                ELSE raised' = "ActError" /\ UNCHANGED step
    /\ UNCHANGED <<use_manual_filling, upload_file, shipment_data, attempt, confirmation>>
    /\ UNCHANGED single
    /\ UNCHANGED shared

\* lines 157-159 and 205-248: auto-fill mode; the check of line 240 may
\* raise and the method goes on
UploadJsonAndAutofill ==
    /\ step = "process" /\ raised = "" /\ ~use_manual_filling
    /\ IF ~upload_file.exists
       THEN raised' = "FileNotFoundError" /\ UNCHANGED <<nova, step>>
       ELSE IF ~TruthyTuple(validate_file(upload_file))
       THEN raised' = "ValueError" /\ UNCHANGED <<nova, step>>
       ELSE \E n \in 0..3 :
               /\ nova' = nova \o Acts(<<LocatePrompt, SetInputFiles, CheckPrompt>>, n)
               /\ IF n = 0 THEN raised' = "ActError" /\ UNCHANGED step
                  ELSE IF n = 1 THEN raised' = "PlaywrightError" /\ UNCHANGED step
                  ELSE step' = "submit" /\ UNCHANGED raised
    /\ UNCHANGED <<use_manual_filling, upload_file, shipment_data, attempt, confirmation>>
    /\ UNCHANGED single
    /\ UNCHANGED shared

\* lines 254-269
SubmitForm ==
    /\ step = "submit" /\ raised = ""
    /\ \E ok \in BOOLEAN :
          /\ nova' = Append(nova, Act(SubmitPrompt, ok))
          /\ IF ok THEN step' = "capture" /\ UNCHANGED raised
             ELSE raised' = "ActError" /\ UNCHANGED step
    /\ UNCHANGED <<use_manual_filling, upload_file, shipment_data, attempt, confirmation>>
    /\ UNCHANGED single
    /\ UNCHANGED shared

\* lines 271-305: the structured confirmation, the raw text when the answer
\* does not match the schema, or the error of a call that raised; the method
\* returns in each case
CaptureConfirmation ==
    /\ step = "capture" /\ raised = ""
    /\ \/ /\ nova' = nova \o Acts(<<ExtractPrompt>>, 1)
          /\ confirmation' \in {"confirmation_number", "error"}
       \/ \E n \in 0..2 :
             /\ nova' = nova \o Acts(<<ExtractPrompt, ReturnTextPrompt>>, n)
             /\ confirmation' = IF n = 2 THEN "raw_confirmation" ELSE "error"
    /\ step' = "save"
    /\ UNCHANGED <<use_manual_filling, upload_file, shipment_data, attempt, raised>>
    /\ UNCHANGED single
    /\ UNCHANGED shared

\* lines 307-330: the results are written; a failure is logged
SaveResults ==
    /\ step = "save" /\ raised = ""
    /\ step' = "done"
    /\ UNCHANGED <<use_manual_filling, upload_file, shipment_data, attempt, nova, raised,
                   confirmation>>
    /\ UNCHANGED single
    /\ UNCHANGED shared

NextAutomation ==
    \/ LoadShipmentData
    \/ StartNovaAct
    \/ LoginToPortal
    \/ NavigateToShipmentForm
    \/ FillShipmentForm
    \/ UploadJsonAndAutofill
    \/ SubmitForm
    \/ CaptureConfirmation
    \/ SaveResults

SpecAutomation == InitAutomation /\ [][NextAutomation]_vars

-----------------------------------------------------------------------------
(* What the claims speak of, stated over the flattened document of the     *)
(* state and the alias table                                               *)

Parsed == pc = "parsed"

Aliases(i) == field_mappings[i].keys
DocIndex == 1..Len(flattened_data)
DocKey(j) == flattened_data[j][1]
DocValue(j) == flattened_data[j][2]

Least(S) == CHOOSE a \in S : \A b \in S : a <= b
Greatest(S) == CHOOSE a \in S : \A b \in S : a >= b

\* the aliases of field i that are a document key as they stand
ExactAliases(i) == {a \in 1..Len(Aliases(i)) : \E j \in DocIndex : DocKey(j) = Aliases(i)[a]}

\* the aliases of field i that are a document key once both are lower-cased
FoldedAliases(i) ==
    {a \in 1..Len(Aliases(i)) : \E j \in DocIndex : lower(DocKey(j)) = lower(Aliases(i)[a])}

\* alias a of field i and document key j contain one another, lower-cased
Contains(i, a, j) ==
    \/ StrIn(lower(Aliases(i)[a]), lower(DocKey(j)))
    \/ StrIn(lower(DocKey(j)), lower(Aliases(i)[a]))

PartialPairs(i) ==
    {p \in (1..Len(Aliases(i))) \X DocIndex : Contains(i, p[1], p[2])}

\* the first pair by alias position, then by document position
FirstPair(P) == CHOOSE p \in P : \A q \in P : p[1] < q[1] \/ (p[1] = q[1] /\ p[2] <= q[2])

\* C1: whenever an alias of a field is exactly a document key, the value
\* resolved for the field is the value stored under the first such alias in
\* table order, whatever the earlier aliases match in the other passes.
C1_ExactPassWins ==
    Parsed =>
        \A i \in FieldIndex :
            ExactAliases(i) # {} =>
                \E j \in DocIndex :
                    /\ DocKey(j) = Aliases(i)[Least(ExactAliases(i))]
                    /\ raw_values[i] = DocValue(j)

\* an exact alias wins over an earlier alias that another key contains
C1_Witness ==
    /\ Parsed
    /\ \E i \in FieldIndex :
          /\ ExactAliases(i) # {}
          /\ \E p \in PartialPairs(i) :
                /\ p[1] < Least(ExactAliases(i))
                /\ DocValue(p[2]) # raw_values[i]
                /\ DocValue(p[2]) # None
          /\ raw_values[i] # None

\* C2: when no alias of a field is exactly a document key and some alias is
\* one after lower-casing, the value resolved is the value of a key equal,
\* lower-cased, to the first such alias in table order, even when an earlier
\* alias contains or is contained in a document key.
C2_CaseInsensitiveBeforePartial ==
    Parsed =>
        \A i \in FieldIndex :
            (ExactAliases(i) = {} /\ FoldedAliases(i) # {}) =>
                \E j \in DocIndex :
                    /\ lower(DocKey(j)) = lower(Aliases(i)[Least(FoldedAliases(i))])
                    /\ raw_values[i] = DocValue(j)

\* a case-insensitive hit wins over an earlier alias that another key contains
C2_Witness ==
    /\ Parsed
    /\ \E i \in FieldIndex :
          /\ ExactAliases(i) = {}
          /\ FoldedAliases(i) # {}
          /\ \E p \in PartialPairs(i) :
                /\ p[1] < Least(FoldedAliases(i))
                /\ DocValue(p[2]) # raw_values[i]
                /\ DocValue(p[2]) # None
          /\ raw_values[i] # None

\* C3: when neither the exact nor the case-insensitive pass finds a key for
\* a field, the value resolved is the value of the first pair (alias,
\* document key), by alias position and then by document order, in which one
\* lower-cased string contains the other; with no such pair nothing is
\* resolved.
C3_PartialPassOrder ==
    Parsed =>
        \A i \in FieldIndex :
            (ExactAliases(i) = {} /\ FoldedAliases(i) = {}) =>
                IF PartialPairs(i) = {} THEN raw_values[i] = None
                ELSE raw_values[i] = DocValue(FirstPair(PartialPairs(i))[2])

\* sample_2: shipper_name comes from shipment.sender.name through the alias
\* sender, which a later key contains too and which is not the first alias
C3_Witness ==
    /\ Parsed
    /\ \E j \in DocIndex : DocKey(j) = "shipment.sender.name" /\ DocValue(j) = Str("ABC Corp")
    /\ field_mappings[1].field = "shipper_name"
    /\ raw_values[1] = Str("ABC Corp")
    /\ ExactAliases(1) = {} /\ FoldedAliases(1) = {}
    /\ \E p, q \in PartialPairs(1) :
          /\ p = FirstPair(PartialPairs(1))
          /\ Aliases(1)[p[1]] = "sender"
          /\ q[1] = p[1] /\ q[2] > p[2] /\ DocValue(q[2]) # DocValue(p[2])

-----------------------------------------------------------------------------
(* The record returned by parse_json_data *)

RecordIndex == 1..Len(standardized_data)
RecordKeys == {standardized_data[j][1] : j \in RecordIndex}
RecordValue(k) == standardized_data[CHOOSE j \in RecordIndex : standardized_data[j][1] = k][2]

\* one of the three passes matches a document key for field i
Matched(i) == ExactAliases(i) # {} \/ FoldedAliases(i) # {} \/ PartialPairs(i) # {}

FieldOf(i) == field_mappings[i].field

\* C4 (as claimed): when the key found first for a field holds Null, the
\* record has the field, with the empty string as its value.
C4_NullGivesEmptyString ==
    Parsed =>
        \A i \in FieldIndex :
            (Matched(i) /\ raw_values[i] = None) =>
                /\ FieldOf(i) \in RecordKeys
                /\ RecordValue(FieldOf(i)) = Str("")

ScalarTags == {"null", "bool", "num", "float", "str"}

\* C5 (as claimed): every value of the flattened document is Null, Boolean,
\* Number or String.
C5_ScalarsOnly ==
    Parsed => \A j \in DocIndex : DocValue(j).t \in ScalarTags

\* C5 (amended): every value of the flattened document is Null, Boolean,
\* Number, String, or an Array that is empty or whose first element is not
\* an Object; no Object is a value and no Array whose first element is an
\* Object is a value.
C5_NoObjectSurvives ==
    Parsed =>
        \A j \in DocIndex :
            \/ DocValue(j).t \in ScalarTags
            \/ /\ DocValue(j).t = "list"
               /\ (Len(DocValue(j).l) = 0 \/ DocValue(j).l[1].t # "dict")

\* the flattened document of an input that nests objects and arrays of
\* objects holds an array as a value, one that has an Object inside
C5_Witness ==
    /\ Parsed
    /\ \E j \in DocIndex :
          /\ DocValue(j).t = "list"
          /\ StrIn(separator, DocKey(j))
          /\ \E e \in 1..Len(DocValue(j).l) : DocValue(j).l[e].t = "dict"
    /\ \E k \in 1..Len(data.d) : data.d[k][2].t = "list" /\ data.d[k][2].l[1].t = "dict"

RECURSIVE FirstElements(_)
\* the document with every array of objects that is the value of an object
\* entry replaced by its first element
FirstElements(v) ==
    IF v.t # "dict" THEN v
    ELSE Dict([j \in 1..Len(v.d) |->
                  LET value == v.d[j][2]
                  IN  <<v.d[j][1],
                        IF value.t = "list" /\ Len(value.l) > 0 /\ value.l[1].t = "dict"
                        THEN FirstElements(value.l[1])
                        ELSE FirstElements(value)>>])

\* no two entries of the document flatten to the same dotted path (a later
\* one would replace the value of the earlier one, as in any dict)
NoPathTwice ==
    data.t = "dict" => Len(FlattenEntries(data.d, 1, Len(data.d), "")) = Len(flattened_data)

C7_RootArrayIsItsFirstElement ==
    (Parsed /\ data.t = "list" /\ Len(data.l) > 0 /\ data.l[1].t = "dict") =>
        flattened_data = _flatten_json(data.l[1], "")

\* C8 (as claimed): the keys of the record are _metadata and the fields for
\* which one of the three passes matches a document key, and no other.
C8_RecordKeySet ==
    Parsed => RecordKeys = {"_metadata"} \cup {FieldOf(i) : i \in {k \in FieldIndex : Matched(k)}}

\* C9: every canonical field of the record holds a string, whatever the type
\* of the document value it comes from.
C9_FieldValuesAreStrings ==
    Parsed =>
        \A j \in RecordIndex :
            standardized_data[j][1] \in FieldNames => standardized_data[j][2].t = "str"

\* fields resolved from a number, a boolean and an array are in the record
C9_Witness ==
    /\ Parsed
    /\ \E i \in FieldIndex :
          /\ raw_values[i].t \in {"num", "float", "bool", "list"}
          /\ FieldOf(i) \in RecordKeys
          /\ FieldOf(i) \notin {"package_weight", "shipping_date", "shipper_address", "recipient_address"}
          /\ RecordValue(FieldOf(i)).t = "str"

\* the first numeric token of s for the pattern "optional digits, optional
\* decimal point, optional digits" (a token holds a digit and may begin with
\* the point), as [found, group]
ClaimedToken(s) ==
    LET starts == {i \in 1..Len(s) :
                      \/ IsDigit(CharAt(s, i))
                      \/ (CharAt(s, i) = "." /\ i < Len(s) /\ IsDigit(CharAt(s, i + 1)))}
        a == Least(starts)
        b == DigitsEnd(s, a)
        c == IF b <= Len(s) /\ CharAt(s, b) = "." THEN DigitsEnd(s, b + 1) ELSE b
    IN  IF starts = {} THEN [found |-> FALSE, group |-> ""]
        ELSE [found |-> TRUE, group |-> SubSeq(s, a, c - 1)]

\* C10 (as claimed): package_weight is the first numeric token of the
\* stringified, trimmed raw value, a token that may begin with the decimal
\* point, and the trimmed string when there is no token.
C10_WeightIsFirstNumericToken ==
    Parsed =>
        \A i \in FieldIndex :
            (FieldOf(i) = "package_weight" /\ raw_values[i] # None) =>
                LET trimmed == strip(PyStr(raw_values[i]))
                    token == ClaimedToken(trimmed)
                IN  /\ "package_weight" \in RecordKeys
                    /\ RecordValue("package_weight")
                          = Str(IF token.found THEN token.group ELSE trimmed)


-----------------------------------------------------------------------------
(* Date normalization *)

FieldNo(field) == CHOOSE i \in FieldIndex : FieldOf(i) = field

\* the formats of the list under which the whole string s parses
ParsingFormats(s) == {i \in 1..Len(formats) : strptime(s, formats[i]).ok}

\* C11: the formats are tried in list order: the shipping_date of the record
\* is the date, written YYYY-MM-DD, that the first format under which the
\* trimmed string parses gives (a slash date that parses month-first and
\* day-first is read month-first, the earlier of the two in the list), and
\* the trimmed string itself when no format parses it; "01/25/2024" gives
\* "2024-01-25"
C11_FirstParsingFormatGivesTheDate ==
    (Parsed /\ raw_values[FieldNo("shipping_date")] # None) =>
        LET s == strip(PyStr(raw_values[FieldNo("shipping_date")]))
            P == ParsingFormats(s)
        IN  /\ "shipping_date" \in RecordKeys
            /\ P = {} => RecordValue("shipping_date") = Str(s)
            /\ P # {} => RecordValue("shipping_date") =
                              Str(strftime_ymd(strptime(s, formats[Least(P)]).dt))
            /\ s = "01/25/2024" => RecordValue("shipping_date") = Str("2024-01-25")
            /\ s = "03/04/2024" => RecordValue("shipping_date") = Str("2024-03-04")

\* a slash date that parses under the month-first and the day-first format
\* has been read month-first
C11_Witness ==
    /\ Parsed
    /\ raw_values[FieldNo("shipping_date")] = Str("03/04/2024")
    /\ {2, 3} \subseteq ParsingFormats("03/04/2024")
    /\ formats[2] = "%m/%d/%Y" /\ formats[3] = "%d/%m/%Y"
    /\ RecordValue("shipping_date") = Str("2024-03-04")

-----------------------------------------------------------------------------
(* Address normalization *)

AddressSeparators == {"|", ";", "\n"}

\* the positions of s that hold one of the characters of seps, and the k-th
\* of them counted from the left (0 before the first, Len(s) + 1 after the last)
CutsOf(s, seps) == {i \in 1..Len(s) : CharAt(s, i) \in seps}
Cut(s, seps, k) ==
    IF k = 0 THEN 0
    ELSE IF k > Cardinality(CutsOf(s, seps)) THEN Len(s) + 1
    ELSE CHOOSE i \in CutsOf(s, seps) :
             Cardinality({j \in CutsOf(s, seps) : j < i}) = k - 1

\* the pieces of s between the characters of seps, from left to right
Segments(s, seps) ==
    [k \in 1..(Cardinality(CutsOf(s, seps)) + 1) |->
        SubSeq(s, Cut(s, seps, k - 1) + 1, Cut(s, seps, k) - 1)]

\* the pieces of s, trimmed, that are not empty, in their order
TrimmedSegments(s) ==
    LET segs == Segments(s, AddressSeparators)
        trimmed == [k \in 1..Len(segs) |-> strip(segs[k])]
    IN  SelectSeq(trimmed, LAMBDA line : line # "")

AddressFields == {"shipper_address", "recipient_address"}

\* C12: for an address field whose alias resolves to a non-null value, the
\* lines of the record's value are the non-empty trimmed segments obtained by
\* splitting the string on '|', ';' and line breaks, in their original order
\* (the empty string when there is none); the value holds no '|' and no ';',
\* no empty line and no line with leading or trailing whitespace
C12_AddressIsItsTrimmedSegments ==
    Parsed =>
        \A field \in AddressFields :
            raw_values[FieldNo(field)] # None =>
                LET s == PyStr(raw_values[FieldNo(field)])
                    segs == TrimmedSegments(s)
                    result == RecordValue(field).s
                    lines == Segments(result, {"\n"})
                IN  /\ field \in RecordKeys
                    /\ RecordValue(field).t = "str"
                    /\ segs = <<>> => result = ""
                    /\ segs # <<>> => lines = segs
                    /\ \A i \in 1..Len(result) : CharAt(result, i) \notin {"|", ";"}
                    /\ result # "" => \A k \in 1..Len(lines) :
                                          lines[k] # "" /\ strip(lines[k]) = lines[k]

\* an address with pipes, semicolons, empty segments and padded segments has
\* come out as its three segments, one per line
C12_Witness ==
    /\ Parsed
    /\ raw_values[FieldNo("shipper_address")] = Str(" a | b ;; c ")
    /\ TrimmedSegments(" a | b ;; c ") = <<"a", "b", "c">>
    /\ RecordValue("shipper_address") = Str("a\nb\nc")

-----------------------------------------------------------------------------
(* Idempotence *)

\* the call at hand was given the canonical fields of an earlier record
Resubmitted == previous # None

\* C13: a flat document whose keys are canonical field names and whose values
\* are the output of the same field's normalizer comes back from
\* parse_json_data with identical values under those keys, and normalizing a
\* field's value a second time leaves it as the first normalization made it
C13_Idempotence ==
    Parsed =>
        /\ Resubmitted =>
               \A k \in {previous.d[j][1] : j \in 1..Len(previous.d)} :
                   /\ k \in FieldNames
                   /\ HasKey(found_mappings, k)
                   /\ Get(found_mappings, k) = Get(previous.d, k)
        /\ \A i \in FieldIndex :
               raw_values[i] # None =>
                   _normalize_value(FieldOf(i), _normalize_value(FieldOf(i), raw_values[i]))
                       = _normalize_value(FieldOf(i), raw_values[i])

\* the record of a slash date, a weight with a unit and an address with
\* separators has been parsed a second time
C13_Witness ==
    /\ Parsed
    /\ Resubmitted
    /\ \E k \in {"shipping_date", "package_weight", "shipper_address"} :
           /\ HasKey(previous.d, k)
           /\ Get(previous.d, k) \in {Str("2024-03-04"), Str("25.3"), Str("a\nb\nc")}
           /\ Get(found_mappings, k) = Get(previous.d, k)

-----------------------------------------------------------------------------
(* The validation report *)

\* validate_parsed_data has returned its report on record
Validated == pc = "validated"

\* the values that count as empty: the empty string, and for a value that is
\* no string None, zero, false and the empty list or dict
EmptyValues ==
    {None, Str(""), Num(0), Float(0, 0), Bool(FALSE), List(<<>>), Dict(<<>>)}

\* field is absent from record or has an empty value
Lacking(field) == ~HasKey(record, field) \/ Get(record, field) \in EmptyValues

RequiredNames == <<"shipper_name", "recipient_name", "package_weight", "shipping_date">>

\* C14: missing_required is exactly the list of the required fields
\* (shipper_name, recipient_name, package_weight, shipping_date) that are
\* absent from the record or have an empty value; is_valid is true exactly
\* when that list is empty, whatever the warnings are
C14_MissingRequiredDecidesValidity ==
    Validated =>
        /\ validation_report.missing_required
               = SelectSeq(RequiredNames, LAMBDA field : Lacking(field))
        /\ validation_report.is_valid <=> validation_report.missing_required = <<>>
        /\ validation_report.is_valid <=>
               \A i \in 1..Len(RequiredNames) : ~Lacking(RequiredNames[i])

\* a record with every required field, a weight that draws a warning and a
\* date that draws a warning has been found valid
C14_Witness ==
    /\ Validated
    /\ validation_report.is_valid
    /\ Len(validation_report.warnings) = 2
    /\ validation_report.missing_required = <<>>

\* a record whose shipper_name is the empty string has been validated
C14_WitnessEmptyValue ==
    /\ Validated
    /\ HasKey(record, "shipper_name") /\ Get(record, "shipper_name") = Str("")
    /\ validation_report.missing_required[1] = "shipper_name"
    /\ ~validation_report.is_valid

\* the warnings of the report that are among texts, in the report's order
WarningsAmong(texts) == SelectSeq(validation_report.warnings, LAMBDA w : w \in texts)

WeightTexts == {NonPositive, UnusuallyHigh, NotANumber}

\* what the claim's cases give for weights written out in full
ExpectedWeightWarnings ==
    {<<Str("0"), <<NonPositive>> >>, <<Str("-5"), <<NonPositive>> >>,
     <<Num(0), <<NonPositive>> >>,
     <<Str("1500"), <<UnusuallyHigh>> >>, <<Num(1500), <<UnusuallyHigh>> >>,
     <<Str("1000.5"), <<UnusuallyHigh>> >>,
     <<Str("1000"), <<>> >>, <<Str("45.5"), <<>> >>, <<Float(45, 5), <<>> >>,
     <<Str("5."), <<>> >>, <<Str(" 1e3 "), <<>> >>,
     <<Str("abc"), <<NotANumber>> >>, <<Str(""), <<NotANumber>> >>,
     <<None, <<NotANumber>> >>, <<List(<<Num(1)>>), <<NotANumber>> >>}

\* package_weight has parsed to a number: float() has returned, and what
\* it returned is not its not-a-number value
IsNumber(weight) == weight.ok /\ weight.kind # "nan"

\* C15: the report holds at most one weight warning: 'should be greater than
\* 0' when package_weight parses to a number <= 0 (the string "0" included),
\* 'seems unusually high' when it parses to a number > 1000 ("1500" included,
\* exactly 1000 excluded), 'is not a valid number' when it does not parse as
\* a number, none when it parses to a number in (0, 1000], and none when
\* package_weight is absent
C15_WeightWarnings ==
    Validated =>
        LET found == WarningsAmong(WeightTexts)
        IN  /\ Len(found) <= 1
            /\ ~HasKey(record, "package_weight") => found = <<>>
            /\ HasKey(record, "package_weight") =>
                   LET weight == float(Get(record, "package_weight"))
                   IN  /\ ~IsNumber(weight) => found = <<NotANumber>>
                       /\ (IsNumber(weight) /\ LessEqualZero(weight))
                              => found = <<NonPositive>>
                       /\ (IsNumber(weight) /\ GreaterThan1000(weight))
                              => found = <<UnusuallyHigh>>
                       /\ (IsNumber(weight) /\ ~LessEqualZero(weight)
                               /\ ~GreaterThan1000(weight)) => found = <<>>
                       /\ \A e \in ExpectedWeightWarnings :
                              Get(record, "package_weight") = e[1] => found = e[2]

\* the same, the weights that float() turns into not-a-number left aside
C15_WeightWarningsOfNumbers ==
    \/ /\ Validated /\ HasKey(record, "package_weight")
       /\ float(Get(record, "package_weight")).kind = "nan"
    \/ C15_WeightWarnings

DateTexts == {InThePast, InvalidFormat}

Midnight(y, m, d) == [Y |-> y, m |-> m, d |-> d, H |-> 0, M |-> 0, S |-> 0, f |-> 0]

\* what the claim's cases give for dates and clock readings written out in
\* full: <<shipping_date, the day of now, now is midnight, the warnings>>
ExpectedDateWarnings ==
    {<<"2024-01-15", Midnight(2024, 1, 20), FALSE, <<InThePast>> >>,
     <<"2024-01-15", Midnight(2024, 1, 15), TRUE, <<>> >>,
     <<"2024-01-20", Midnight(2024, 1, 20), FALSE, <<InThePast>> >>,
     <<"2024-01-20", Midnight(2024, 1, 15), TRUE, <<>> >>,
     <<"2025-06-02", Midnight(2025, 6, 1), FALSE, <<>> >>,
     <<"2025-06-02", Midnight(2024, 1, 20), FALSE, <<>> >>,
     <<"2999-01-05", Midnight(2025, 6, 1), FALSE, <<>> >>,
     <<"tomorrow", Midnight(2024, 1, 20), FALSE, <<InvalidFormat>> >>,
     <<"01/25/2024", Midnight(2025, 6, 1), FALSE, <<InvalidFormat>> >>,
     <<"2024-02-30", Midnight(2024, 1, 15), TRUE, <<InvalidFormat>> >>,
     <<"", Midnight(2024, 1, 20), FALSE, <<InvalidFormat>> >>}

\* C16: when shipping_date is present the report holds 'Shipping date is in
\* the past' if it parses as YYYY-MM-DD to a moment earlier than the clock
\* reading, 'Shipping date format is invalid' if it does not parse under
\* that format, and no date warning otherwise; never both; none when
\* shipping_date is absent.  A report is returned for every shipping_date
\* that is a string.
C16_DateWarnings ==
    /\ (pc = "raised" /\ error = "TypeError") =>
           (HasKey(record, "shipping_date") /\ Get(record, "shipping_date").t # "str")
    /\ Validated =>
           LET found == WarningsAmong(DateTexts)
           IN  /\ Len(found) <= 1
               /\ ~HasKey(record, "shipping_date") => found = <<>>
               /\ HasKey(record, "shipping_date") =>
                      LET s == Get(record, "shipping_date").s
                          ship_date == strptime(s, "%Y-%m-%d")
                      IN  /\ ~ship_date.ok => found = <<InvalidFormat>>
                          /\ (ship_date.ok /\ Earlier(ship_date.dt, validated_at))
                                 => found = <<InThePast>>
                          /\ (ship_date.ok /\ ~Earlier(ship_date.dt, validated_at))
                                 => found = <<>>
                          /\ \A e \in ExpectedDateWarnings :
                                 (/\ s = e[1]
                                  /\ [validated_at EXCEPT !.H = 0, !.M = 0, !.S = 0, !.f = 0] = e[2]
                                  /\ (validated_at = e[2]) = e[3]) => found = e[4]

\* the report on a date of the very day of the clock reading, which is past
\* by some hours, has been returned
C16_Witness ==
    /\ Validated
    /\ HasKey(record, "shipping_date")
    /\ Get(record, "shipping_date") = Str("2024-01-20")
    /\ validated_at = [Y |-> 2024, m |-> 1, d |-> 20, H |-> 9, M |-> 30, S |-> 0, f |-> 0]
    /\ WarningsAmong(DateTexts) = <<InThePast>>

\* the report on a date that is the clock reading to the microsecond has
\* been returned without a date warning
C16_WitnessNow ==
    /\ Validated
    /\ HasKey(record, "shipping_date")
    /\ Get(record, "shipping_date") = Str("2024-01-15")
    /\ validated_at = Midnight(2024, 1, 15)
    /\ WarningsAmong(DateTexts) = <<>>

\* C17: validate_parsed_data returns a report and never raises, for every
\* mapping given to it, whatever the presence and the type (string, number,
\* null, list) of the values under package_weight and shipping_date
C17_ValidatorNeverRaises ==
    /\ pc # "raised"
    /\ pc = "validated" => error = ""

\* the canonical fields in the order of the alias table
TableFields == [i \in FieldIndex |-> FieldOf(i)]

\* the members of a list
Members(list) == {list[i] : i \in 1..Len(list)}

\* C19: found_fields is exactly the list of the canonical fields that are
\* present in the record with a non-empty value, in alias-table order; no
\* field is in both found_fields and missing_required, and every required
\* field is in exactly one of the two
C19_FoundFields ==
    Validated =>
        /\ validation_report.found_fields
               = SelectSeq(TableFields, LAMBDA field : ~Lacking(field))
        /\ Members(validation_report.found_fields)
               \cap Members(validation_report.missing_required) = {}
        /\ \A i \in 1..Len(RequiredNames) :
               RequiredNames[i] \in Members(validation_report.found_fields)
                                    \cup Members(validation_report.missing_required)

\* the report on a record that holds shipping_date, an empty tracking_number
\* and package_weight, in this order, has been returned: the two fields with
\* a value are found, in the order of the table, and the two absent
\* required fields are missing
C19_Witness ==
    /\ Validated
    /\ DictKeys(record) = <<"shipping_date", "tracking_number", "package_weight">>
    /\ Get(record, "tracking_number") = Str("")
    /\ validation_report.found_fields = <<"package_weight", "shipping_date">>
    /\ validation_report.missing_required = <<"shipper_name", "recipient_name">>

-----------------------------------------------------------------------------
(* The failures of parse_json_file *)

\* the texts drawn that are JSON: an object, an object within whitespace,
\* the empty object, arrays, a number, null, true and a string
ValidJson ==
    {"{\"weight\": \"25.3 lbs\", \"to\": {\"name\": \"XYZ Ltd\"}}",
     " {\"ship_date\": \"01/25/2024\", \"from_addr\": null}\n",
     "{}", "[{\"weight\": 5}]", "[]", "45.5", "null", "true", "\"ABC Corp\"",
     ShipmentText, EmptyValuesText}

\* the call at hand is one of parse_json_file, on a path that names a file
\* whose text is JSON
CalledOnJson == file.called /\ file.exists /\ file.text \in ValidJson

\* C18: parse_json_file fails with an error and returns no record when the
\* file does not exist or its text is not valid JSON, and these are its only
\* failures: for a file that holds valid JSON of any shape (object, array or
\* scalar at the root) it returns a canonical record, the canonical fields
\* resolved plus _metadata, without raising
C18_OnlyTwoFailuresAreFatal ==
    file.called =>
        /\ pc # "file" =>
               IF CalledOnJson
               THEN /\ pc # "failed"
                    /\ error \notin {"FileNotFoundError", "JSONDecodeError"}
               ELSE /\ pc = "failed"
                    /\ error = IF file.exists THEN "JSONDecodeError" ELSE "FileNotFoundError"
                    /\ standardized_data = <<>>
        /\ Parsed =>
               /\ HasKey(standardized_data, "_metadata")
               /\ RecordKeys \subseteq FieldNames \cup {"_metadata"}
               /\ SubSeq(standardized_data, 1, Len(standardized_data) - 1) = found_mappings

\* the file whose text is an array at the root has been parsed: the record
\* holds its metadata and nothing else
C18_Witness ==
    /\ Parsed
    /\ file = FileOf("[{\"weight\": 5}]")
    /\ previous = None
    /\ data = List(<<Dict(<< <<"weight", Num(5)>> >>)>>)
    /\ RecordKeys = {"_metadata"}

\* the call on a file whose text breaks off after the opening brace has
\* failed
C18_WitnessFailed ==
    /\ pc = "failed"
    /\ file = FileOf("{")
    /\ error = "JSONDecodeError"

-----------------------------------------------------------------------------
(* Determinism and isolation *)

\* what call c returns when it is the only call on a parser with the table
\* of line 18, its clock reading being the one it took
Alone(c) ==
    IF calls[c].method = "parse_json_data"
    THEN [pc |-> "done", standardized_data |-> parse_json_data(calls[c].given, calls[c].now),
          validation_report |-> NewReport]
    ELSE LET call == validate_parsed_data(calls[c].given.d, calls[c].now)
         IN  [pc |-> IF call.raised THEN "raised" ELSE "done", standardized_data |-> <<>>,
              validation_report |-> call.report]

\* C20: the calls on one shared JsonParser, parse_json_data and
\* validate_parsed_data, repeated and interleaved in any order, leave the
\* alias table as it was built and the argument of every call as it was
\* given, and every call that has ended has the result it has alone: the
\* canonical fields and the metadata, the time parsed_at excepted, are those
\* of the document and the alias table, the report is that of the record
C20_CallsAreIsolated ==
    /\ self_field_mappings = field_mappings
    /\ \A c \in DOMAIN calls :
           /\ calls[c].data = calls[c].given
           /\ calls[c].pc \in {"done", "raised"} =>
                  /\ calls[c].pc = Alone(c).pc
                  /\ calls[c].standardized_data = Alone(c).standardized_data
                  /\ calls[c].validation_report = Alone(c).validation_report
    /\ \A c \in DOMAIN calls : \A e \in DOMAIN calls :
           (/\ calls[c].method = "parse_json_data" /\ calls[c].pc = "done"
            /\ calls[e].method = "parse_json_data" /\ calls[e].pc = "done"
            /\ calls[c].given = calls[e].given) =>
               LET fields(r) == SubSeq(r, 1, Len(r) - 1)
               IN  fields(calls[c].standardized_data) = fields(calls[e].standardized_data)

\* a call of parse_json_data has ended, on a document that holds two aliases
\* of one field, while a call of validate_parsed_data on the same parser is
\* in the middle of its loop over the table
C20_Witness ==
    /\ DOMAIN calls = Calls
    /\ calls[1].method = "parse_json_data" /\ calls[1].pc = "done"
    /\ HasKey(calls[1].given.d, "shipper") /\ HasKey(calls[1].given.d, "shipper_name")
    /\ Get(calls[1].standardized_data, "shipper_name") = Str("B")
    /\ calls[2].method = "validate_parsed_data" /\ calls[2].pc = "found"
    /\ calls[2].i = 5

-----------------------------------------------------------------------------
(* Manual form filling *)

\* the nine canonical keys in the order of the claim, each with the words
\* that name its field of the form
FormOrder ==
    << <<"shipper_name", "shipper name">>, <<"shipper_address", "shipper address">>,
       <<"recipient_name", "recipient name">>, <<"recipient_address", "recipient address">>,
       <<"package_weight", "package weight">>, <<"package_dimensions", "package dimensions">>,
       <<"tracking_number", "tracking number">>, <<"shipping_date", "shipping date">>,
       <<"special_instructions", "special instructions">> >>

EndsWith(s, tail) == Len(tail) <= Len(s) /\ SubSeq(s, Len(s) - Len(tail) + 1, Len(s)) = tail

\* the call enters a value in the form field of the canonical key
EntersField(call, key) ==
    /\ SubSeq(call, 1, 7) = "Enter '"
    /\ EndsWith(call, "' in the " \o Get(FormOrder, key) \o " field")

\* the canonical keys whose fields the calls made so far entered, in the
\* order of the calls, once for each call
KeysEntered ==
    LET entering == SelectSeq(nova, LAMBDA a : \E i \in 1..Len(FormOrder) :
                                                  EntersField(a.call, FormOrder[i][1]))
    IN  [j \in 1..Len(entering) |->
            FormOrder[CHOOSE i \in 1..Len(FormOrder) :
                          EntersField(entering[j].call, FormOrder[i][1])][1]]

\* fill_shipment_form was called and has returned
Filled == use_manual_filling /\ step \in {"submit", "capture", "save", "done"}

KeysOf(keep(_)) ==
    LET kept == SelectSeq(FormOrder, LAMBDA e : keep(e[1]))
    IN  [j \in 1..Len(kept) |-> kept[j][1]]

\* C21: when fill_shipment_form has returned, it has issued exactly one
\* 'enter value in field' action for each of the nine canonical keys present
\* in the record, a key present with an empty value included, and none for
\* an absent key, in the order shipper_name, shipper_address,
\* recipient_name, recipient_address, package_weight, package_dimensions,
\* tracking_number, shipping_date, special_instructions
C21_OneFillActionPerPresentKey ==
    Filled => KeysEntered = KeysOf(LAMBDA key : HasKey(shipment_data, key))

\* the actions issued are those of the keys that hold a non-empty value
C21_OneFillActionPerNonEmptyValue ==
    Filled =>
        /\ KeysEntered = KeysOf(LAMBDA key : /\ HasKey(shipment_data, key)
                                             /\ Get(shipment_data, key) # Str(""))
        /\ \A j \in 1..Len(nova) : \A i \in 1..Len(FormOrder) :
               EntersField(nova[j].call, FormOrder[i][1]) =>
                   nova[j].call = "Enter '" \o Get(shipment_data, FormOrder[i][1]).s
                                      \o "' in the " \o FormOrder[i][2] \o " field"

\* the form was filled from a record that holds all nine keys, and from a
\* record that holds shipper_name with the empty string
C21_WitnessAllNine ==
    Filled /\ Len(KeysEntered) = 9

C21_WitnessEmptyValue ==
    /\ Filled
    /\ HasKey(shipment_data, "shipper_name")
    /\ Get(shipment_data, "shipper_name") = Str("")
    /\ KeysEntered = <<"recipient_name", "package_weight">>

-----------------------------------------------------------------------------
(* The upload of auto-fill mode *)

\* upload_json_and_autofill was called and has returned or raised
UploadEnded ==
    /\ ~use_manual_filling
    /\ \/ step = "process" /\ raised # ""
       \/ step \in {"submit", "capture", "save", "done"}

\* the calls that upload: locating the input and set_input_files
UploadCalls == {j \in 1..Len(nova) : nova[j].call \in {LocatePrompt, SetInputFiles}}

\* validate_file was called on the upload file and reported it not valid
ReportedNotValid == upload_file.exists /\ ~validate_file(upload_file)[1]

\* C22: whenever validate_file reports the upload file as not valid (an
\* unsupported extension, a size above the limit of its type, not a regular
\* file, not readable), upload_json_and_autofill raises the 'File validation
\* failed' error before any upload action is performed
C22_UploadGuardedByValidation ==
    (UploadEnded /\ ReportedNotValid) =>
        /\ step = "process"
        /\ raised = "ValueError"
        /\ UploadCalls = {}

\* what the method does: whatever validate_file reports, it never raises the
\* validation error, and a file reported not valid is located and set
C22_ValidationNeverFails ==
    UploadEnded => raised # "ValueError"

\* the upload went through for a file of an unsupported type
C22_WitnessUnsupportedUploaded ==
    /\ UploadEnded
    /\ upload_file.name = "setup.exe"
    /\ validate_file(upload_file) = <<FALSE, "Unsupported file type">>
    /\ step = "submit"
    /\ \E j \in UploadCalls : nova[j].call = SetInputFiles /\ nova[j].ok

-----------------------------------------------------------------------------
(* The fields are resolved one by one against the whole document *)

\* the last document key, in document order, that is alias a of field i once
\* both are lower-cased
LastFolding(i, a) ==
    Greatest({j \in DocIndex : lower(DocKey(j)) = lower(Aliases(i)[a])})

\* what the three passes give field i when every document key is there for
\* them to match
Resolved(i) ==
    IF ExactAliases(i) # {} THEN Get(flattened_data, Aliases(i)[Least(ExactAliases(i))])
    ELSE IF FoldedAliases(i) # {} THEN DocValue(LastFolding(i, Least(FoldedAliases(i))))
    ELSE IF PartialPairs(i) # {} THEN DocValue(FirstPair(PartialPairs(i))[2])
    ELSE None

\* the document keys that are an alias of field i, lower-cased or not
OwnKeys(i) == {j \in DocIndex : \E a \in 1..Len(Aliases(i)) : lower(DocKey(j)) = lower(Aliases(i)[a])}

\* C23: every field is resolved against the whole document, whatever the
\* fields before it matched: a document key matched for one field stays
\* available to every other field, so a document whose only key is
\* recipient_address gives both recipient_address and recipient_name the
\* value of that key, the latter through the substring pass, and the record
\* holds a field none of whose aliases is a document key
C23_FieldsResolvedIndependently ==
    Parsed =>
        /\ \A i \in FieldIndex :
              /\ raw_values[i] = Resolved(i)
              /\ FieldOf(i) \in RecordKeys <=> Resolved(i) # None
        /\ (DictKeys(flattened_data) = <<"recipient_address">> /\ DocValue(1) # None) =>
              /\ raw_values[FieldNo("recipient_address")] = DocValue(1)
              /\ raw_values[FieldNo("recipient_name")] = DocValue(1)
              /\ {"recipient_address", "recipient_name"} \subseteq RecordKeys
              /\ OwnKeys(FieldNo("recipient_name")) = {}

\* the document whose only key is recipient_address was parsed: the record
\* holds recipient_name and recipient_address with the same value
C23_Witness ==
    /\ Parsed
    /\ DictKeys(flattened_data) = <<"recipient_address">>
    /\ DocValue(1) # None
    /\ RecordKeys = {"recipient_name", "recipient_address", "_metadata"}
    /\ RecordValue("recipient_name") = RecordValue("recipient_address")
    /\ OwnKeys(FieldNo("recipient_name")) = {}

-----------------------------------------------------------------------------
(* Several document keys that match one alias *)

\* the first alias of field i that contains or is contained in a document
\* key, lower-cased
FirstPartialAlias(i) == Least({p[1] : p \in PartialPairs(i)})

\* C24: when no alias of a field is exactly a document key and several
\* document keys are equal to the same alias after lower-casing, the
\* case-insensitive pass returns the value of the last such key in document
\* order; the substring pass returns the value of the first document key, in
\* document order, that matches its alias
C24_LastFoldedKeyFirstPartialKey ==
    Parsed =>
        \A i \in FieldIndex :
            ExactAliases(i) = {} =>
                IF FoldedAliases(i) # {}
                THEN raw_values[i] = DocValue(LastFolding(i, Least(FoldedAliases(i))))
                ELSE PartialPairs(i) # {} =>
                         raw_values[i] =
                             DocValue(Least({j \in DocIndex : Contains(i, FirstPartialAlias(i), j)}))

\* two keys that fold to one alias hold different values, and the field has
\* the value of the later one
C24_Witness ==
    /\ Parsed
    /\ \E i \in FieldIndex :
          /\ ExactAliases(i) = {}
          /\ FoldedAliases(i) # {}
          /\ \E j, k \in DocIndex :
                /\ j < k
                /\ lower(DocKey(j)) = lower(Aliases(i)[Least(FoldedAliases(i))])
                /\ lower(DocKey(k)) = lower(DocKey(j))
                /\ DocValue(j) # None /\ DocValue(k) # None
                /\ DocValue(j) # DocValue(k)
                /\ raw_values[i] = DocValue(k)

\* two keys contain the alias the substring pass stops at, and the field has
\* the value of the earlier one
C24_WitnessPartial ==
    /\ Parsed
    /\ \E i \in FieldIndex :
          /\ ExactAliases(i) = {} /\ FoldedAliases(i) = {} /\ PartialPairs(i) # {}
          /\ \E j, k \in DocIndex :
                /\ j < k
                /\ Contains(i, FirstPartialAlias(i), j)
                /\ Contains(i, FirstPartialAlias(i), k)
                /\ DocValue(j) # DocValue(k)
                /\ raw_values[i] = DocValue(j)

-----------------------------------------------------------------------------
(* The sign of a weight *)

\* validate_parsed_data has returned its report on the record that
\* parse_json_data returned
ValidatedParsed == Validated /\ record = standardized_data /\ HasKey(record, "_metadata")

\* the warnings of the report, as a set
Warnings == {validation_report.warnings[j] : j \in 1..Len(validation_report.warnings)}

RawWeight == raw_values[FieldNo("package_weight")]

\* the text of a raw value, as the normalizer reads it
RawText(raw) == strip(PyStr(raw))

HasDigit(s) == \E i \in 1..Len(s) : IsDigit(CharAt(s, i))

\* digits with at most a point among or after them, and nothing else
UnsignedDigits(s) ==
    /\ s # "" /\ IsDigit(CharAt(s, 1))
    /\ \A i \in 1..Len(s) : IsDigit(CharAt(s, i)) \/ CharAt(s, i) = "."
    /\ Cardinality({i \in 1..Len(s) : CharAt(s, i) = "."}) <= 1

\* a raw weight that holds a negative number written with digits: a number
\* below zero, or a text that begins with "-" and a digit
NegativeDigits(raw) ==
    \/ raw.t = "num" /\ raw.n < 0
    \/ raw.t = "str" /\ Len(RawText(raw)) >= 2 /\ CharAt(RawText(raw), 1) = "-"
           /\ IsDigit(CharAt(RawText(raw), 2))

\* a raw weight that holds a negative number: written with digits, or a text
\* that float() reads as a number below zero
NegativeWeight(raw) ==
    \/ NegativeDigits(raw)
    \/ raw.t = "str" /\ float(raw).ok /\ float(raw).neg
           /\ (float(raw).kind = "inf" \/ (float(raw).kind = "finite" /\ float(raw).mant # 0))

\* the number the validator reads in the normalized weight is zero
ExtractedZero ==
    /\ float(Get(record, "package_weight")).kind = "finite"
    /\ float(Get(record, "package_weight")).mant = 0

\* C25 (as claimed): for every raw package_weight that holds a negative
\* number the normalized value is the unsigned digits, and for every record
\* produced by parse_json_data the warning 'Package weight should be greater
\* than 0' is raised only when the extracted number is zero, never for a
\* negative source weight
C25_SignIsDropped ==
    (ValidatedParsed /\ HasKey(record, "package_weight")) =>
        /\ NegativeWeight(RawWeight) => UnsignedDigits(Get(record, "package_weight").s)
        /\ NonPositive \in Warnings => ExtractedZero

\* C25 (amended): for every raw package_weight that holds a negative number
\* written with digits the normalized value is unsigned digits, and the
\* warning draws on the sign of no such weight: it is raised exactly when
\* the number read in the normalized value is zero, or when the raw weight
\* holds no digit, passes through unchanged and reads as minus infinity
C25_SignIsDroppedFromDigits ==
    (ValidatedParsed /\ HasKey(record, "package_weight")) =>
        /\ NegativeDigits(RawWeight) => UnsignedDigits(Get(record, "package_weight").s)
        /\ HasDigit(RawText(RawWeight)) =>
               /\ UnsignedDigits(Get(record, "package_weight").s)
               /\ ~float(Get(record, "package_weight")).neg
        /\ NonPositive \in Warnings <=>
               \/ ExtractedZero
               \/ /\ ~HasDigit(RawText(RawWeight))
                  /\ Get(record, "package_weight") = Str(RawText(RawWeight))
                  /\ float(Get(record, "package_weight")).kind = "inf"
                  /\ float(Get(record, "package_weight")).neg

\* the weights -5 and "-5 kg" were normalized to "5" and drew no warning
C25_Witness ==
    /\ ValidatedParsed
    /\ RawWeight \in {Num(-5), Str("-5 kg")}
    /\ Get(record, "package_weight") = Str("5")
    /\ NonPositive \notin Warnings

\* the weight "-0.0" was normalized to "0.0" and drew the warning
C25_WitnessZero ==
    /\ ValidatedParsed
    /\ RawWeight = Str("-0.0")
    /\ Get(record, "package_weight") = Str("0.0")
    /\ NonPositive \in Warnings

\* the weight "-inf" passed through and drew the warning
C25_WitnessMinusInfinity ==
    /\ ValidatedParsed
    /\ RawWeight = Str("-inf")
    /\ Get(record, "package_weight") = Str("-inf")
    /\ NonPositive \in Warnings

-----------------------------------------------------------------------------
(* The retries of navigate_to_shipment_form *)

\* the clicks on the shipment form link made so far, in order
Clicks == SelectSeq(nova, LAMBDA a : a.call = NavigatePrompt)

\* navigate_to_shipment_form has raised to run_automation
NavigationRaised == step = "navigate" /\ raised # ""

\* navigate_to_shipment_form has returned or raised
NavigationEnded ==
    NavigationRaised \/ step \in {"process", "submit", "capture", "save", "done"}

\* the calls of form processing and of submission
ProcessingCalls ==
    {j \in 1..Len(nova) : nova[j].call \notin {LoginPrompts[i] : i \in 1..Len(LoginPrompts)} \cup {NavigatePrompt}}

\* C26: navigate_to_shipment_form clicks the shipment form link at most 3
\* times; no click follows a click that succeeded, and the method returns
\* normally after the first click that succeeds; it raises to the caller if
\* and only if all 3 attempts fail, and then the workflow has made no call of
\* form processing or submission
C26_BoundedNavigationRetry ==
    /\ Len(Clicks) <= 3
    /\ \A j \in 1..(Len(Clicks) - 1) : ~Clicks[j].ok
    /\ (step = "navigate" /\ raised = "") => Len(Clicks) = attempt /\ attempt < 3
    /\ NavigationEnded =>
          /\ Len(Clicks) >= 1
          /\ NavigationRaised <=> (Len(Clicks) = 3 /\ \A j \in 1..3 : ~Clicks[j].ok)
          /\ ~NavigationRaised => Clicks[Len(Clicks)].ok
    /\ NavigationRaised => ProcessingCalls = {}
    /\ ProcessingCalls # {} => Clicks # <<>> /\ Clicks[Len(Clicks)].ok

\* three clicks failed and the method raised
C26_Witness ==
    /\ NavigationRaised
    /\ Len(Clicks) = 3
    /\ \A j \in 1..3 : ~Clicks[j].ok

\* the second click succeeded and the form was submitted after two clicks
C26_WitnessSecondAttempt ==
    /\ step = "done"
    /\ Len(Clicks) = 2
    /\ ~Clicks[1].ok /\ Clicks[2].ok

=========================================================================
